---- MODULE Spec2Model ----
(***************************************************************************)
(* A model of the MCP desktop client: the child-process stdio transport    *)
(* (infrastructure/mcp_transport.rs), the session client                   *)
(* (infrastructure/proper_mcp_client.rs) and the host commands that reach  *)
(* it through one mutex (application/commands.rs, application/state.rs).   *)
(*                                                                         *)
(* Every tokio task is a process of the model.  An async function is cut   *)
(* at its suspension points and at its sends into channels other tasks     *)
(* read, since the runtime is multi-threaded.                              *)
(***************************************************************************)
EXTENDS Integers, Sequences, FiniteSets, TLC

\* ---------------------------------------------------------------- bounds
\* tasks that call into the transport or the client concurrently
NProcs == 2
\* operations invoked in one run; each draws at most one request id
MaxCalls == 2
\* StdioTransport instances spawned in one run
MaxTransports == 2
\* response lines the server writes in one run
MaxLines == 2
\* other lines (blank, unparseable, notification, request) the server writes
MaxNoise == 1

Procs == 1..NProcs
\* a run that begins on a connected client has drawn one id before it
Ids == 1..(MaxCalls + 1)
Trs == 1..MaxTransports
NoTransport == 0
NoId == 0
NoProc == 0

\* ------------------------------------------------------------ data types
\* TransportError (mcp_transport.rs); NoTErr stands for "no error".
TErr(tag, val, code, message) ==
    [tag |-> tag, val |-> val, code |-> code, message |-> message]
NoTErr == TErr("None", "", 0, "")
Io == TErr("Io", "", 0, "")
ChannelClosed == TErr("ChannelClosed", "", 0, "")
Timeout == TErr("Timeout", "", 0, "")
\* Process(format!("RPC error {}: {}", code, message))
ProcessRpc(code, message) == TErr("Process", "RPC error", code, message)
ProcessInvalid == TErr("Process", "Invalid response", 0, "")

\* Result<Value, TransportError>
TOk(v) == [ok |-> TRUE, val |-> v, err |-> NoTErr]
TFail(e) == [ok |-> FALSE, val |-> "", err |-> e]
NoResult == [ok |-> FALSE, val |-> "", err |-> NoTErr]

\* the states of a oneshot channel
Unused == [st |-> "unused", res |-> NoResult]
Empty == [st |-> "empty", res |-> NoResult]
RxDropped == [st |-> "rx_dropped", res |-> NoResult]
TxDropped == [st |-> "tx_dropped", res |-> NoResult]
Closed == [st |-> "closed", res |-> NoResult]
Filled(r) == [st |-> "filled", res |-> r]

\* JsonRpcMessage written by the client
Request(method, id) == [kind |-> "Request", method |-> method, id |-> id]
Notification(method) == [kind |-> "Notification", method |-> method, id |-> NoId]

\* a line of the child's stdout; result and error are Option: "" and 0 are None
NoError == [some |-> FALSE, code |-> 0, message |-> ""]
RpcError(code, message) == [some |-> TRUE, code |-> code, message |-> message]
Boom == RpcError(-32001, "boom")
Response(id, result, error) ==
    [kind |-> "Response", id |-> id, result |-> result, error |-> error]
Noise(kind) == [kind |-> kind, id |-> NoId, result |-> "", error |-> NoError]
NoResponse == Noise("None")
NoiseKinds == {"Blank", "Unparseable", "InvalidUtf8", "Notification", "Request"}

\* the result values a server gives per method: the ones the client's serde
\* type for that method accepts, and "junk", which none accepts
ResultsFor(method) ==
    CASE method = "initialize" -> {"init_tools", "init_notools", "junk"}
      [] method = "tools/list" -> {"tools_a", "tools_b", "junk"}
      [] method = "tools/call" -> {"call_ok", "junk"}
      [] OTHER -> {"pong"}

\* the bodies of a response: a result, an error object, or neither
Payloads(method) ==
    {[result |-> v, error |-> NoError] : v \in ResultsFor(method)}
    \cup {[result |-> "", error |-> Boom], [result |-> "", error |-> NoError]}

VARIABLES
    \* ---- StdioTransport, per instance
    life,              \* "none" | "live" | "dropped": the struct
    child,             \* "none" | "running" | "exited" | "killed": the OS process
    childHandle,       \* self.child is Some
    stdin_rx,          \* the outbound queue (stdin_tx -> stdin_rx)
    pending_rx,        \* registrations (pending_requests sender -> pending_rx)
    response_rx,       \* responses (response_tx -> response_rx)
    pending_requests,  \* the keys of the correlator's HashMap
    writer,            \* "run" | "done": stdin_handle
    reader,            \* "run" | "done": stdout_handle
    stderr_reader,     \* "run" | "done": stderr_handle
    correlator,        \* "run" | "done": pending_handle
    wire,              \* what has been written to the child's stdin
    stdout,            \* lines the child has written and the reader has not read
    \* ---- requests
    slot,              \* the oneshot channel of each request id
    nextId,            \* the next fresh id (Uuid::new_v4)
    registeredAs,      \* per request: the uuid it is registered and sent under
    \* ---- the server
    emitted,           \* response lines written
    noise,             \* other lines written
    mc,                \* the McpClient of mcp_client.rs with its StdioTransport (stdio_transport.rs)
    \* ---- callers
    pc, op, tr, reqId, srRet, cmd, ret, err, local,
    ncalls,
    \* ---- ProperMcpClient and AppState
    transport, state, server_capabilities, tools,
    mcp_client,        \* the task holding the Mutex of AppState, or NoProc
    waiters,           \* the tasks queued on that Mutex, first come first
    \* ---- history, read by the properties only
    sent,              \* per transport: every message handed to stdin_tx
    inserted,          \* ids pending_handle has put into its map
    nmatched,          \* per id: how many responses matched its entry
    arrived,           \* per id: the response pending_handle took while the
                       \* caller waited, kept until the caller has returned
    delivered,         \* per id: the response whose outcome went into the
                       \* slot, kept until the caller has returned
    answers,           \* per id: how many responses the server has written
    handshake,         \* transports whose initialize() returned Ok
    lastWasDisconnect, \* the command that returned last was disconnect_server
    inbound,           \* per transport: "none" | "discarded" | "then_response", what the reader did with a request or notification of the server
    issuedAfterStop,   \* per caller: its request began after a task of the transport ended
    duringConnect,     \* per proc: its command was invoked while connect ran
    atBegin            \* per proc: the client's fields when its operation began

transportVars == <<life, child, childHandle, stdin_rx, pending_rx, response_rx,
                   pending_requests, writer, reader, stderr_reader, correlator, wire, stdout>>
requestVars == <<slot, nextId, registeredAs>>
serverVars == <<emitted, noise, mc>>
callerVars == <<pc, op, tr, reqId, srRet, cmd, ret, err, local, ncalls>>
clientVars == <<transport, state, server_capabilities, tools, mcp_client, waiters>>
historyVars == <<sent, inserted, nmatched, arrived, delivered, answers, handshake, lastWasDisconnect, inbound, issuedAfterStop, duringConnect, atBegin>>
vars == <<transportVars, requestVars, serverVars, callerVars, clientVars,
          historyVars>>

\* no McpClient of mcp_client.rs has been made
NoMcpClient == [child |-> "none"]

\* McpClientError (proper_mcp_client.rs)
McpErr(tag, te, msg) == [tag |-> tag, te |-> te, msg |-> msg]
NoMcpErr == McpErr("None", NoTErr, "")
NotConnected == McpErr("NotConnected", NoTErr, "")
Transport(te) == McpErr("Transport", te, "")
Protocol(msg) == McpErr("Protocol", NoTErr, msg)

\* ClientState; Error(String) keeps the format string's prefix and its argument
ClientState(tag, prefix, e) == [tag |-> tag, prefix |-> prefix, err |-> e]
Disconnected == ClientState("Disconnected", "", NoMcpErr)
Connecting == ClientState("Connecting", "", NoMcpErr)
Connected == ClientState("Connected", "", NoMcpErr)
Error(prefix, e) == ClientState("Error", prefix, e)

\* Option<ServerCapabilities>: only the tools sub-capability is read
NoCapabilities == [some |-> FALSE, tools |-> FALSE]
Capabilities(hasTools) == [some |-> TRUE, tools |-> hasTools]

\* serde_json::from_value into InitializeResponse / ListToolsResponse /
\* CallToolResponse
ParsesInitialize(v) == v \in {"init_tools", "init_notools"}
CapabilitiesOf(v) == Capabilities(v = "init_tools")
ParsesListTools(v) == v \in {"tools_a", "tools_b"}
ToolsOf(v) == IF v = "tools_a" THEN <<"echo">> ELSE <<"echo", "add">>
ParsesCallTool(v) == v = "call_ok"

\* what a client operation or a host command returns
COk(v, ts) == [ok |-> TRUE, val |-> v, tools |-> ts, err |-> NoMcpErr]
CErr(e) == [ok |-> FALSE, val |-> "", tools |-> <<>>, err |-> e]
NoRet == [ok |-> FALSE, val |-> "", tools |-> <<>>, err |-> NoMcpErr]

NoLocal == [t |-> NoTransport, v |-> ""]
Snapshot == [transport |-> transport, state |-> state,
             server_capabilities |-> server_capabilities, tools |-> tools,
             nextId |-> nextId, sent |-> sent]

NoSnapshot == [transport |-> NoTransport, state |-> Disconnected,
               server_capabilities |-> NoCapabilities, tools |-> <<>>,
               nextId |-> 0, sent |-> [t \in Trs |-> <<>>]]

MethodOf(o) ==
    CASE o = "initialize" -> "initialize"
      [] o = "list_tools" -> "tools/list"
      [] o = "call_tool" -> "tools/call"
      [] OTHER -> "ping"

\* ------------------------------------------------------------------ Init
InitCallers ==
    /\ pc = [p \in Procs |-> "idle"]
    /\ op = [p \in Procs |-> "none"]
    /\ tr = [p \in Procs |-> NoTransport]
    /\ reqId = [p \in Procs |-> NoId]
    /\ srRet = [p \in Procs |-> NoResult]
    /\ cmd = [p \in Procs |-> "none"]
    /\ ret = [p \in Procs |-> NoRet]
    /\ err = [p \in Procs |-> NoMcpErr]
    /\ local = [p \in Procs |-> NoLocal]
    /\ ncalls = 0
    /\ slot = [i \in Ids |-> Unused]
    /\ nextId = 1
    /\ registeredAs = [i \in Ids |-> NoId]
    /\ emitted = 0
    /\ noise = 0
    /\ inserted = {}
    /\ nmatched = [i \in Ids |-> 0]
    /\ arrived = [i \in Ids |-> NoResponse]
    /\ delivered = [i \in Ids |-> NoResponse]
    /\ answers = [i \in Ids |-> 0]
    /\ handshake = {}
    /\ lastWasDisconnect = FALSE
    /\ inbound = [t \in Trs |-> "none"]
    /\ issuedAfterStop = [p \in Procs |-> FALSE]
    /\ duringConnect = [p \in Procs |-> FALSE]

\* ProperMcpClient::new inside AppState::new
InitClient ==
    /\ transport = NoTransport
    /\ state = Disconnected
    /\ server_capabilities = NoCapabilities
    /\ tools = <<>>
    /\ mcp_client = NoProc
    /\ waiters = <<>>

\* no StdioTransport exists yet, or exactly the instances in `made`
InitTransports(made) ==
    /\ life = [t \in Trs |-> IF t \in made THEN "live" ELSE "none"]
    /\ child = [t \in Trs |-> IF t \in made THEN "running" ELSE "none"]
    /\ childHandle = [t \in Trs |-> t \in made]
    /\ stdin_rx = [t \in Trs |-> <<>>]
    /\ pending_rx = [t \in Trs |-> <<>>]
    /\ response_rx = [t \in Trs |-> <<>>]
    /\ pending_requests = [t \in Trs |-> {}]
    /\ writer = [t \in Trs |-> IF t \in made THEN "run" ELSE "none"]
    /\ reader = [t \in Trs |-> IF t \in made THEN "run" ELSE "none"]
    /\ stderr_reader = [t \in Trs |-> IF t \in made THEN "run" ELSE "none"]
    /\ correlator = [t \in Trs |-> IF t \in made THEN "run" ELSE "none"]
    /\ wire = [t \in Trs |-> <<>>]
    /\ stdout = [t \in Trs |-> <<>>]
    /\ sent = [t \in Trs |-> <<>>]

\* the application after AppState::new
Init ==
    /\ InitCallers
    /\ InitClient
    /\ InitTransports({})
    /\ atBegin = [p \in Procs |-> NoSnapshot]
    /\ mc = NoMcpClient

\* the application after one start_mcp_server has succeeded and returned, the
\* handshake written and answered once: transport 1 is the client's, request
\* 1 was its "initialize"
InitConnected ==
    /\ pc = [p \in Procs |-> "idle"]
    /\ op = [p \in Procs |-> "none"]
    /\ tr = [p \in Procs |-> NoTransport]
    /\ reqId = [p \in Procs |-> NoId]
    /\ srRet = [p \in Procs |-> NoResult]
    /\ cmd = [p \in Procs |-> "none"]
    /\ ret = [p \in Procs |-> NoRet]
    /\ err = [p \in Procs |-> NoMcpErr]
    /\ local = [p \in Procs |-> NoLocal]
    /\ ncalls = 0
    /\ slot = [i \in Ids |-> IF i = 1 THEN Closed ELSE Unused]
    /\ nextId = 2
    /\ registeredAs = [i \in Ids |-> IF i = 1 THEN 1 ELSE NoId]
    /\ emitted = 0
    /\ noise = 0
    /\ mc = NoMcpClient
    /\ inserted = {1}
    /\ nmatched = [i \in Ids |-> IF i = 1 THEN 1 ELSE 0]
    /\ arrived = [i \in Ids |-> NoResponse]
    /\ delivered = [i \in Ids |-> NoResponse]
    /\ answers = [i \in Ids |-> IF i = 1 THEN 1 ELSE 0]
    /\ handshake = {1}
    /\ lastWasDisconnect = FALSE
    /\ inbound = [t \in Trs |-> "none"]
    /\ issuedAfterStop = [p \in Procs |-> FALSE]
    /\ duringConnect = [p \in Procs |-> FALSE]
    /\ atBegin = [p \in Procs |-> NoSnapshot]
    /\ transport = 1
    /\ state = Connected
    /\ server_capabilities \in {[some |-> TRUE, tools |-> TRUE],
                                [some |-> TRUE, tools |-> FALSE]}
    /\ tools = <<>>
    /\ mcp_client = NoProc
    /\ waiters = <<>>
    /\ life = [t \in Trs |-> IF t = 1 THEN "live" ELSE "none"]
    /\ child = [t \in Trs |-> IF t = 1 THEN "running" ELSE "none"]
    /\ childHandle = [t \in Trs |-> t = 1]
    /\ stdin_rx = [t \in Trs |-> <<>>]
    /\ pending_rx = [t \in Trs |-> <<>>]
    /\ response_rx = [t \in Trs |-> <<>>]
    /\ pending_requests = [t \in Trs |-> {}]
    /\ writer = [t \in Trs |-> IF t = 1 THEN "run" ELSE "none"]
    /\ reader = [t \in Trs |-> IF t = 1 THEN "run" ELSE "none"]
    /\ stderr_reader = [t \in Trs |-> IF t = 1 THEN "run" ELSE "none"]
    /\ correlator = [t \in Trs |-> IF t = 1 THEN "run" ELSE "none"]
    /\ wire = [t \in Trs |->
                  IF t = 1 THEN <<Request("initialize", 1),
                                  Notification("initialized")>>
                  ELSE <<>>]
    /\ stdout = [t \in Trs |-> <<>>]
    /\ sent = wire

\* one StdioTransport right after StdioTransport::new, used directly
InitTransport ==
    /\ InitCallers
    /\ InitClient
    /\ InitTransports({1})
    /\ atBegin = [p \in Procs |-> NoSnapshot]
    /\ mc = NoMcpClient

\* ------------------------------------------------- StdioTransport tasks
\* Outcome with the server's error object dropped
OutcomeWithoutError(r) ==
    IF r.result # "" THEN TOk(r.result) ELSE TFail(ProcessInvalid)

\* what the correlator sends into the slot of a matched response
Outcome(r) ==
    IF r.result # "" THEN TOk(r.result)
    ELSE IF r.error.some THEN TFail(ProcessRpc(r.error.code, r.error.message))
    ELSE TFail(ProcessInvalid)

\* pending_handle, the branch of select! that takes a registration.  select!
\* polls its branches in random order, so either branch may run when both
\* channels hold something.
\* pending_requests.remove(&id): the entry stored under the uuid, if any.
Stored(t, id) == {m \in pending_requests[t] : registeredAs[m] = id}

pending_handle_insert(t) ==
    /\ correlator[t] = "run"
    /\ pending_rx[t] # <<>>
    /\ LET n == Head(pending_rx[t])
           \* HashMap::insert replaces the entry stored under the same key
           \* and the sender it returns is dropped on the spot
           old == {m \in pending_requests[t] :
                       registeredAs[m] = registeredAs[n] /\ m # n}
       IN /\ pending_requests' =
                 [pending_requests EXCEPT ![t] = (@ \ old) \cup {n}]
          /\ slot' = [i \in Ids |->
                         IF i \in old
                         THEN IF slot[i].st = "empty" THEN TxDropped ELSE Closed
                         ELSE slot[i]]
    /\ pending_rx' = [pending_rx EXCEPT ![t] = Tail(@)]
    /\ inserted' = inserted \cup {Head(pending_rx[t])}
    /\ UNCHANGED <<life, child, childHandle, stdin_rx, response_rx, writer,
                   reader, stderr_reader, correlator, wire, stdout>>
    /\ UNCHANGED <<nextId, registeredAs, serverVars, callerVars, clientVars>>
    /\ UNCHANGED <<sent, nmatched, arrived, delivered, answers, handshake, lastWasDisconnect, inbound, issuedAfterStop, duringConnect, atBegin>>

\* A correlator that forgets every registration when a response matches none.
pending_handle_response_clears(t) ==
    /\ correlator[t] = "run"
    /\ response_rx[t] # <<>>
    /\ LET r == Head(response_rx[t]) IN
       /\ response_rx' = [response_rx EXCEPT ![t] = Tail(@)]
       /\ arrived' = IF slot[r.id].st = "empty" /\ arrived[r.id] = NoResponse
                      THEN [arrived EXCEPT ![r.id] = r]
                      ELSE arrived
       /\ IF Stored(t, r.id) # {}
          THEN LET m == CHOOSE m \in Stored(t, r.id) : TRUE IN
               /\ pending_requests' = [pending_requests EXCEPT ![t] = @ \ {m}]
               \* sender.send fails silently when the receiver is gone
               /\ slot' = [slot EXCEPT
                              ![m] = IF @.st = "empty" THEN Filled(Outcome(r))
                                     ELSE Closed]
               /\ delivered' = IF slot[m].st = "empty"
                                THEN [delivered EXCEPT ![m] = r]
                                ELSE delivered
               /\ nmatched' = [nmatched EXCEPT ![m] = @ + 1]
          ELSE /\ pending_requests' = [pending_requests EXCEPT ![t] = {}]
               /\ UNCHANGED <<slot, nmatched, delivered>>
    /\ UNCHANGED <<life, child, childHandle, stdin_rx, pending_rx, writer,
                   reader, stderr_reader, correlator, wire, stdout>>
    /\ UNCHANGED <<nextId, registeredAs, serverVars, callerVars, clientVars>>
    /\ UNCHANGED <<sent, inserted, answers, handshake, lastWasDisconnect, inbound, issuedAfterStop, duringConnect, atBegin>>

\* pending_handle, the branch of select! that takes a response
pending_handle_response(t) ==
    /\ correlator[t] = "run"
    /\ response_rx[t] # <<>>
    /\ LET r == Head(response_rx[t]) IN
       /\ response_rx' = [response_rx EXCEPT ![t] = Tail(@)]
       /\ arrived' = IF slot[r.id].st = "empty" /\ arrived[r.id] = NoResponse
                      THEN [arrived EXCEPT ![r.id] = r]
                      ELSE arrived
       /\ IF Stored(t, r.id) # {}
          THEN LET m == CHOOSE m \in Stored(t, r.id) : TRUE IN
               /\ pending_requests' = [pending_requests EXCEPT ![t] = @ \ {m}]
               \* sender.send fails silently when the receiver is gone
               /\ slot' = [slot EXCEPT
                              ![m] = IF @.st = "empty" THEN Filled(Outcome(r))
                                     ELSE Closed]
               /\ delivered' = IF slot[m].st = "empty"
                                THEN [delivered EXCEPT ![m] = r]
                                ELSE delivered
               /\ nmatched' = [nmatched EXCEPT ![m] = @ + 1]
          ELSE UNCHANGED <<pending_requests, slot, nmatched, delivered>>
    /\ UNCHANGED <<life, child, childHandle, stdin_rx, pending_rx, writer,
                   reader, stderr_reader, correlator, wire, stdout>>
    /\ UNCHANGED <<nextId, registeredAs, serverVars, callerVars, clientVars>>
    /\ UNCHANGED <<sent, inserted, answers, handshake, lastWasDisconnect, inbound, issuedAfterStop, duringConnect, atBegin>>

\* A writer that takes the newest message of its queue.
stdin_handle_write_newest(t) ==
    /\ writer[t] = "run"
    /\ stdin_rx[t] # <<>>
    /\ IF child[t] = "running"
       THEN /\ wire' = [wire EXCEPT
                           ![t] = Append(@, stdin_rx[t][Len(stdin_rx[t])])]
            /\ stdin_rx' = [stdin_rx EXCEPT
                               ![t] = SubSeq(@, 1, Len(@) - 1)]
            /\ UNCHANGED writer
       ELSE /\ writer' = [writer EXCEPT ![t] = "done"]
            /\ stdin_rx' = [stdin_rx EXCEPT ![t] = <<>>]
            /\ UNCHANGED wire
    /\ UNCHANGED <<life, child, childHandle, pending_rx, response_rx,
                   pending_requests, reader, stderr_reader, correlator, stdout>>
    /\ UNCHANGED <<requestVars, serverVars, callerVars, clientVars, historyVars>>

\* stdin_handle: take a message, write it and a newline, flush; a write to a
\* child that is gone fails and ends the task, dropping stdin_rx
stdin_handle_write(t) ==
    /\ writer[t] = "run"
    /\ stdin_rx[t] # <<>>
    /\ IF child[t] = "running"
       THEN /\ wire' = [wire EXCEPT ![t] = Append(@, Head(stdin_rx[t]))]
            /\ stdin_rx' = [stdin_rx EXCEPT ![t] = Tail(@)]
            /\ UNCHANGED writer
       ELSE /\ writer' = [writer EXCEPT ![t] = "done"]
            /\ stdin_rx' = [stdin_rx EXCEPT ![t] = <<>>]
            /\ UNCHANGED wire
    /\ UNCHANGED <<life, child, childHandle, pending_rx, response_rx,
                   pending_requests, reader, stderr_reader, correlator, stdout>>
    /\ UNCHANGED <<requestVars, serverVars, callerVars, clientVars, historyVars>>
\* A reader that gives up when the server sends a request.
stdout_handle_line_strict(t) ==
    /\ reader[t] = "run"
    /\ stdout[t] # <<>>
    /\ stdout' = [stdout EXCEPT ![t] = Tail(@)]
    /\ response_rx' =
           IF Head(stdout[t]).kind = "Response"
           THEN [response_rx EXCEPT ![t] = Append(@, Head(stdout[t]))]
           ELSE response_rx
    \* next_line() reads into a String: a line that is not UTF-8 makes it
    \* return Err, which ends the `while let Ok(Some(line))` loop
    /\ reader' = IF Head(stdout[t]).kind \in {"InvalidUtf8", "Request"}
                 THEN [reader EXCEPT ![t] = "done"]
                 ELSE reader
    /\ UNCHANGED <<life, child, childHandle, stdin_rx, pending_rx,
                   pending_requests, writer, stderr_reader, correlator, wire>>
    /\ inbound' =
           IF Head(stdout[t]).kind \in {"Notification", "Request"}
           THEN [inbound EXCEPT ![t] = "discarded"]
           ELSE IF Head(stdout[t]).kind = "Response" /\ inbound[t] = "discarded"
           THEN [inbound EXCEPT ![t] = "then_response"]
           ELSE inbound
    /\ UNCHANGED <<requestVars, serverVars, callerVars, clientVars>>
    /\ UNCHANGED <<sent, inserted, nmatched, arrived, delivered, answers,
                   handshake, lastWasDisconnect, issuedAfterStop,
                   duringConnect, atBegin>>

\* stdout_handle: one line; only a response is forwarded.  response_tx.send
\* cannot fail here: pending_handle ends only after this task has ended.
stdout_handle_line(t) ==
    /\ reader[t] = "run"
    /\ stdout[t] # <<>>
    /\ stdout' = [stdout EXCEPT ![t] = Tail(@)]
    /\ response_rx' =
           IF Head(stdout[t]).kind = "Response"
           THEN [response_rx EXCEPT ![t] = Append(@, Head(stdout[t]))]
           ELSE response_rx
    \* next_line() reads into a String: a line that is not UTF-8 makes it
    \* return Err, which ends the `while let Ok(Some(line))` loop
    /\ reader' = IF Head(stdout[t]).kind = "InvalidUtf8"
                 THEN [reader EXCEPT ![t] = "done"]
                 ELSE reader
    /\ UNCHANGED <<life, child, childHandle, stdin_rx, pending_rx,
                   pending_requests, writer, stderr_reader, correlator, wire>>
    /\ inbound' =
           IF Head(stdout[t]).kind \in {"Notification", "Request"}
           THEN [inbound EXCEPT ![t] = "discarded"]
           ELSE IF Head(stdout[t]).kind = "Response" /\ inbound[t] = "discarded"
           THEN [inbound EXCEPT ![t] = "then_response"]
           ELSE inbound
    /\ UNCHANGED <<requestVars, serverVars, callerVars, clientVars>>
    /\ UNCHANGED <<sent, inserted, nmatched, arrived, delivered, answers,
                   handshake, lastWasDisconnect, issuedAfterStop,
                   duringConnect, atBegin>>

\* stdout_handle: next_line gives None once the child is gone and the pipe
\* is drained
stdout_handle_eof(t) ==
    /\ reader[t] = "run"
    /\ stdout[t] = <<>>
    /\ child[t] \in {"exited", "killed"}
    /\ reader' = [reader EXCEPT ![t] = "done"]
    /\ UNCHANGED <<life, child, childHandle, stdin_rx, pending_rx, response_rx,
                   pending_requests, writer, stderr_reader, correlator, wire,
                   stdout>>
    /\ UNCHANGED <<requestVars, serverVars, callerVars, clientVars, historyVars>>

\* ------------------------------------------------------ the child process
\* the server answers a request it has read, with any body, any number of
\* times and in any order
server_respond(t) ==
    /\ child[t] = "running"
    /\ emitted < MaxLines
    /\ \E k \in 1..Len(wire[t]) :
          /\ wire[t][k].kind = "Request"
          /\ \E b \in Payloads(wire[t][k].method) :
                stdout' = [stdout EXCEPT
                              ![t] = Append(@, Response(wire[t][k].id, b.result, b.error))]
          /\ answers' = [answers EXCEPT ![wire[t][k].id] = @ + 1]
    /\ emitted' = emitted + 1
    /\ UNCHANGED <<life, child, childHandle, stdin_rx, pending_rx, response_rx,
                   pending_requests, writer, reader, stderr_reader, correlator, wire>>
    /\ UNCHANGED <<requestVars, noise, mc, callerVars, clientVars>>
    /\ UNCHANGED <<sent, inserted, nmatched, arrived, delivered, handshake, lastWasDisconnect, inbound, issuedAfterStop,
                   duringConnect, atBegin>>

\* the server writes a line that is no response
server_noise(t) ==
    /\ child[t] = "running"
    /\ noise < MaxNoise
    /\ \E k \in NoiseKinds : stdout' = [stdout EXCEPT ![t] = Append(@, Noise(k))]
    /\ noise' = noise + 1
    /\ UNCHANGED mc
    /\ UNCHANGED <<life, child, childHandle, stdin_rx, pending_rx, response_rx,
                   pending_requests, writer, reader, stderr_reader, correlator, wire>>
    /\ UNCHANGED <<requestVars, emitted, callerVars, clientVars, historyVars>>

\* the server process ends on its own
child_exit(t) ==
    /\ child[t] = "running"
    /\ child' = [child EXCEPT ![t] = "exited"]
    /\ UNCHANGED <<life, childHandle, stdin_rx, pending_rx, response_rx,
                   pending_requests, writer, reader, stderr_reader, correlator, wire, stdout>>
    /\ UNCHANGED <<requestVars, serverVars, callerVars, clientVars, historyVars>>

\* ------------------------------------------- StdioTransport::send_request
\* lines 215-227: a fresh id, a oneshot channel, the registration sent to
\* pending_handle; ChannelClosed when that task has ended (it ends only
\* after the transport is dropped, so not under a caller that borrows it)
\* The first half of send_request with the uuid it draws: the request takes
\* the next one-shot channel and registers its sender under the uuid.
send_request_with_id(p, id) ==
    /\ pc[p] = "send_request"
    /\ reqId' = [reqId EXCEPT ![p] = nextId]
    /\ nextId' = nextId + 1
    /\ registeredAs' = [registeredAs EXCEPT ![nextId] = id]
    /\ IF correlator[tr[p]] = "run"
       THEN /\ slot' = [slot EXCEPT ![nextId] = Empty]
            /\ pending_rx' = [pending_rx EXCEPT ![tr[p]] = Append(@, nextId)]
            /\ pc' = [pc EXCEPT ![p] = "send_request_enqueue"]
            /\ UNCHANGED srRet
       ELSE /\ slot' = [slot EXCEPT ![nextId] = Closed]
            /\ srRet' = [srRet EXCEPT ![p] = TFail(ChannelClosed)]
            /\ pc' = [pc EXCEPT ![p] = "send_request_return"]
            /\ UNCHANGED pending_rx
    /\ UNCHANGED <<life, child, childHandle, stdin_rx, response_rx,
                   pending_requests, writer, reader, stderr_reader, correlator, wire, stdout>>
    /\ issuedAfterStop' = [issuedAfterStop EXCEPT
                               ![p] = \/ writer[tr[p]] = "done"
                                      \/ reader[tr[p]] = "done"]
    /\ UNCHANGED <<op, tr, cmd, ret, err, local, ncalls>>
    /\ UNCHANGED <<serverVars, clientVars>>
    /\ UNCHANGED <<sent, inserted, nmatched, arrived, delivered, answers,
                   handshake, lastWasDisconnect, inbound, duringConnect, atBegin>>

\* Uuid::new_v4 draws an id no request has used.
send_request_register(p) == send_request_with_id(p, nextId)

\* Uuid::new_v4 is not checked against the map: the draw that repeats the id
\* of a request still waiting for its response.
send_request_register_collision(p) ==
    \E m \in Ids :
        /\ m < nextId
        /\ slot[m].st = "empty"
        /\ send_request_with_id(p, registeredAs[m])

\* A send on stdin_tx whose failure is reported as an I/O error.
send_request_enqueue_io(p) ==
    /\ pc[p] = "send_request_enqueue"
    /\ IF writer[tr[p]] = "run"
       THEN /\ stdin_rx' = [stdin_rx EXCEPT
                               ![tr[p]] = Append(@, Request(MethodOf(op[p]), registeredAs[reqId[p]]))]
            /\ sent' = [sent EXCEPT
                           ![tr[p]] = Append(@, Request(MethodOf(op[p]), registeredAs[reqId[p]]))]
            /\ pc' = [pc EXCEPT ![p] = "send_request_await"]
            /\ UNCHANGED <<srRet, slot>>
       ELSE /\ srRet' = [srRet EXCEPT ![p] = TFail(Io)]
            /\ slot' = [slot EXCEPT ![reqId[p]] = RxDropped]
            /\ pc' = [pc EXCEPT ![p] = "send_request_return"]
            /\ UNCHANGED <<stdin_rx, sent>>
    /\ UNCHANGED <<life, child, childHandle, pending_rx, response_rx,
                   pending_requests, writer, reader, stderr_reader, correlator, wire, stdout>>
    /\ UNCHANGED <<op, tr, reqId, cmd, ret, err, local, ncalls>>
    /\ UNCHANGED <<nextId, registeredAs, serverVars, clientVars>>
    /\ UNCHANGED <<inserted, nmatched, arrived, delivered, answers, handshake, lastWasDisconnect, inbound, issuedAfterStop, duringConnect, atBegin>>

\* lines 229-231: the request handed to stdin_handle; ChannelClosed when that
\* task has ended
send_request_enqueue(p) ==
    /\ pc[p] = "send_request_enqueue"
    /\ IF writer[tr[p]] = "run"
       THEN /\ stdin_rx' = [stdin_rx EXCEPT
                               ![tr[p]] = Append(@, Request(MethodOf(op[p]), registeredAs[reqId[p]]))]
            /\ sent' = [sent EXCEPT
                           ![tr[p]] = Append(@, Request(MethodOf(op[p]), registeredAs[reqId[p]]))]
            /\ pc' = [pc EXCEPT ![p] = "send_request_await"]
            /\ UNCHANGED <<srRet, slot>>
       ELSE /\ srRet' = [srRet EXCEPT ![p] = TFail(ChannelClosed)]
            /\ slot' = [slot EXCEPT ![reqId[p]] = RxDropped]
            /\ pc' = [pc EXCEPT ![p] = "send_request_return"]
            /\ UNCHANGED <<stdin_rx, sent>>
    /\ UNCHANGED <<life, child, childHandle, pending_rx, response_rx,
                   pending_requests, writer, reader, stderr_reader, correlator, wire, stdout>>
    /\ UNCHANGED <<op, tr, reqId, cmd, ret, err, local, ncalls>>
    /\ UNCHANGED <<nextId, registeredAs, serverVars, clientVars>>
    /\ UNCHANGED <<inserted, nmatched, arrived, delivered, answers, handshake, lastWasDisconnect, inbound, issuedAfterStop, duringConnect, atBegin>>

\* lines 234-236: the slot was filled before the 30 s ran out, or its sender
\* was dropped with the map of pending_handle
send_request_recv(p) ==
    /\ pc[p] = "send_request_await"
    /\ slot[reqId[p]].st \in {"filled", "tx_dropped"}
    /\ srRet' = [srRet EXCEPT
                    ![p] = IF slot[reqId[p]].st = "filled" THEN slot[reqId[p]].res
                           ELSE TFail(ChannelClosed)]
    /\ slot' = [slot EXCEPT ![reqId[p]] = Closed]
    /\ pc' = [pc EXCEPT ![p] = "send_request_return"]
    /\ UNCHANGED <<op, tr, reqId, cmd, ret, err, local, ncalls>>
    /\ UNCHANGED <<transportVars, nextId, registeredAs, serverVars, clientVars, historyVars>>

\* line 237: the 30 s ran out first; the receiver is dropped, nothing else
send_request_timeout(p) ==
    /\ pc[p] = "send_request_await"
    /\ slot[reqId[p]].st = "empty"
    /\ srRet' = [srRet EXCEPT ![p] = TFail(Timeout)]
    /\ slot' = [slot EXCEPT ![reqId[p]] = RxDropped]
    /\ pc' = [pc EXCEPT ![p] = "send_request_return"]
    /\ UNCHANGED <<op, tr, reqId, cmd, ret, err, local, ncalls>>
    /\ UNCHANGED <<transportVars, nextId, registeredAs, serverVars, clientVars, historyVars>>

\* a drop that leaves the child as it is
DropChildAlive(t) == child[t]

\* dropping a StdioTransport: kill_on_drop kills a child still owned, and the
\* senders stdin_tx and pending_requests go away
DropChild(t) ==
    IF childHandle[t] /\ child[t] = "running" THEN "killed" ELSE child[t]

\* ------------------------------------------ callers of a bare transport
\* a task calls send_request on the transport it shares
direct_send_request(p) ==
    /\ life[1] = "live"
    /\ pc[p] = "idle"
    /\ \A q \in Procs : q < p => pc[q] # "idle"
    /\ ncalls < MaxCalls
    /\ pc' = [pc EXCEPT ![p] = "send_request"]
    /\ op' = [op EXCEPT ![p] = "direct"]
    /\ tr' = [tr EXCEPT ![p] = 1]
    /\ ncalls' = ncalls + 1
    /\ UNCHANGED <<reqId, srRet, cmd, ret, err, local>>
    /\ UNCHANGED <<transportVars, requestVars, serverVars, clientVars, historyVars>>

\* a task calls send_notification on the transport it shares (lines
\* 241-252): Ok once the message is handed to stdin_handle, ChannelClosed
\* when that task has ended
direct_send_notification(p) ==
    /\ life[1] = "live"
    /\ pc[p] = "idle"
    /\ \A q \in Procs : q < p => pc[q] # "idle"
    /\ ncalls < MaxCalls
    /\ ncalls' = ncalls + 1
    /\ op' = [op EXCEPT ![p] = "notify"]
    /\ tr' = [tr EXCEPT ![p] = 1]
    /\ pc' = [pc EXCEPT ![p] = "send_request_return"]
    /\ IF writer[1] = "run"
       THEN /\ stdin_rx' = [stdin_rx EXCEPT ![1] = Append(@, Notification("progress"))]
            /\ sent' = [sent EXCEPT ![1] = Append(@, Notification("progress"))]
            /\ srRet' = [srRet EXCEPT ![p] = TOk("")]
       ELSE /\ srRet' = [srRet EXCEPT ![p] = TFail(ChannelClosed)]
            /\ UNCHANGED <<stdin_rx, sent>>
    /\ UNCHANGED <<life, child, childHandle, pending_rx, response_rx,
                   pending_requests, writer, reader, stderr_reader, correlator, wire, stdout>>
    /\ UNCHANGED <<reqId, cmd, ret, err, local>>
    /\ UNCHANGED <<requestVars, serverVars, clientVars>>
    /\ UNCHANGED <<inserted, nmatched, arrived, delivered, answers, handshake,
                   lastWasDisconnect, inbound, issuedAfterStop, duringConnect, atBegin>>

\* a task calls close on the transport (lines 254-260), which it borrows
\* exclusively: the child, if still held, is taken, killed and reaped
direct_close(p) ==
    /\ life[1] = "live"
    /\ \A q \in Procs : pc[q] = "idle"
    /\ p = 1
    /\ childHandle[1]
    /\ childHandle' = [childHandle EXCEPT ![1] = FALSE]
    /\ child' = [child EXCEPT ![1] = DropChild(1)]
    /\ UNCHANGED <<life, stdin_rx, pending_rx, response_rx, pending_requests,
                   writer, reader, stderr_reader, correlator, wire, stdout>>
    /\ UNCHANGED <<requestVars, serverVars, callerVars, clientVars, historyVars>>

\* the task has its result and may call again
direct_return(p) ==
    /\ pc[p] = "send_request_return"
    /\ op[p] \in {"direct", "notify"}
    /\ pc' = [pc EXCEPT ![p] = "idle"]
    /\ op' = [op EXCEPT ![p] = "none"]
    /\ tr' = [tr EXCEPT ![p] = NoTransport]
    /\ reqId' = [reqId EXCEPT ![p] = NoId]
    /\ srRet' = [srRet EXCEPT ![p] = NoResult]
    /\ arrived' = IF reqId[p] = NoId THEN arrived
                  ELSE [arrived EXCEPT ![reqId[p]] = NoResponse]
    /\ delivered' = IF reqId[p] = NoId THEN delivered
                    ELSE [delivered EXCEPT ![reqId[p]] = NoResponse]
    /\ UNCHANGED <<cmd, ret, err, local, ncalls>>
    /\ UNCHANGED <<transportVars, requestVars, serverVars, clientVars>>
    /\ issuedAfterStop' = [issuedAfterStop EXCEPT ![p] = FALSE]
    /\ UNCHANGED <<sent, inserted, nmatched, answers, handshake,
                   lastWasDisconnect, inbound, duringConnect, atBegin>>

TransportTasks ==
    \E t \in Trs :
        \/ pending_handle_insert(t)
        \/ pending_handle_response(t)
        \/ stdin_handle_write(t)
        \/ stdout_handle_line(t)
        \/ stdout_handle_eof(t)
        \/ server_respond(t)
        \/ child_exit(t)

\* lines of the server that answer nothing
ServerNoise ==
    \E t \in Trs : server_noise(t)

SendRequest ==
    \E p \in Procs :
        \/ send_request_register(p)
        \/ send_request_enqueue(p)
        \/ send_request_recv(p)
        \/ send_request_timeout(p)

TransportNext ==
    \/ TransportTasks
    \/ ServerNoise
    \/ SendRequest
    \/ \E p \in Procs :
          \/ direct_send_request(p)
          \/ direct_send_notification(p)
          \/ direct_close(p)
          \/ direct_return(p)

\* one transport shared by NProcs tasks
TransportSpec == InitTransport /\ [][TransportNext]_vars

\* The correlator of a live transport when a drawn uuid may repeat.
CollisionNext ==
    \/ \E t \in Trs :
          \/ pending_handle_insert(t)
          \/ pending_handle_response(t)
          \/ stdin_handle_write(t)
          \/ stdout_handle_line(t)
          \/ server_respond(t)
    \/ SendRequest
    \/ \E p \in Procs :
          \/ send_request_register_collision(p)
          \/ direct_send_request(p)
          \/ direct_return(p)

CollisionSpec == InitTransport /\ [][CollisionNext]_vars

\* ------------------------------------------------------- host commands
Commands == {"start_mcp_server", "discover_tools", "call_tool",
             "get_connection_status", "disconnect_server"}

\* where a command enters the client once it holds the lock
Entry(c) ==
    CASE c = "start_mcp_server" -> "connect"
      [] c = "discover_tools" -> "list_tools"
      [] c = "call_tool" -> "call_tool"
      [] c = "get_connection_status" -> "get_state"
      [] OTHER -> "disconnect"

\* transports made, or still to be made by a start_mcp_server under way
Spawns ==
    Cardinality({t \in Trs : life[t] # "none"})
    + Cardinality({q \in Procs : /\ cmd[q] = "start_mcp_server"
                                 /\ pc[q] \in {"lock", "connect", "connect_spawn"}})

\* a task's locals once its command has returned
Forget(f, p, v) == [f EXCEPT ![p] = v]
\* A command that enters the client without waiting for its mutex.
command_invoke_unlocked(p, c) ==
    /\ pc[p] = "idle"
    /\ \A q \in Procs : q < p => pc[q] # "idle"
    /\ ncalls < MaxCalls
    /\ c = "start_mcp_server" => Spawns < MaxTransports
    /\ cmd' = [cmd EXCEPT ![p] = c]
    /\ ncalls' = ncalls + 1
    /\ IF TRUE
       THEN /\ mcp_client' = p
            /\ pc' = [pc EXCEPT ![p] = Entry(c)]
            /\ atBegin' = [atBegin EXCEPT ![p] = Snapshot]
            /\ UNCHANGED <<waiters, duringConnect>>
       ELSE /\ waiters' = Append(waiters, p)
            /\ pc' = [pc EXCEPT ![p] = "lock"]
            /\ duringConnect' =
                   [duringConnect EXCEPT ![p] = cmd[mcp_client] = "start_mcp_server"]
            /\ UNCHANGED <<mcp_client, atBegin>>
    /\ UNCHANGED <<op, tr, reqId, srRet, ret, err, local>>
    /\ UNCHANGED <<transportVars, requestVars, serverVars>>
    /\ UNCHANGED <<transport, state, server_capabilities, tools>>
    /\ UNCHANGED <<sent, inserted, nmatched, arrived, delivered, answers, handshake, lastWasDisconnect, inbound, issuedAfterStop>>

\* the host invokes a command, which asks for the client's mutex: it gets it
\* at once when the mutex is free, and queues otherwise (tokio's Mutex is
\* fair).  Tasks are alike, so the lowest idle one takes the command.
command_invoke(p, c) ==
    /\ pc[p] = "idle"
    /\ \A q \in Procs : q < p => pc[q] # "idle"
    /\ ncalls < MaxCalls
    /\ c = "start_mcp_server" => Spawns < MaxTransports
    /\ cmd' = [cmd EXCEPT ![p] = c]
    /\ ncalls' = ncalls + 1
    /\ IF mcp_client = NoProc
       THEN /\ mcp_client' = p
            /\ pc' = [pc EXCEPT ![p] = Entry(c)]
            /\ atBegin' = [atBegin EXCEPT ![p] = Snapshot]
            /\ UNCHANGED <<waiters, duringConnect>>
       ELSE /\ waiters' = Append(waiters, p)
            /\ pc' = [pc EXCEPT ![p] = "lock"]
            /\ duringConnect' =
                   [duringConnect EXCEPT ![p] = cmd[mcp_client] = "start_mcp_server"]
            /\ UNCHANGED <<mcp_client, atBegin>>
    /\ UNCHANGED <<op, tr, reqId, srRet, ret, err, local>>
    /\ UNCHANGED <<transportVars, requestVars, serverVars>>
    /\ UNCHANGED <<transport, state, server_capabilities, tools>>
    /\ UNCHANGED <<sent, inserted, nmatched, arrived, delivered, answers, handshake, lastWasDisconnect, inbound, issuedAfterStop>>

\* the command maps the client's result and returns; its guard is dropped and
\* the mutex goes to the first task queued, which enters the client
command_return(p) ==
    /\ pc[p] = "return"
    /\ IF waiters = <<>>
       THEN /\ mcp_client' = NoProc
            /\ pc' = [pc EXCEPT ![p] = "idle"]
            /\ atBegin' = Forget(atBegin, p, NoSnapshot)
            /\ UNCHANGED waiters
       ELSE /\ mcp_client' = Head(waiters)
            /\ waiters' = Tail(waiters)
            /\ pc' = [pc EXCEPT ![p] = "idle",
                                ![Head(waiters)] = Entry(cmd[Head(waiters)])]
            /\ atBegin' = [atBegin EXCEPT ![p] = NoSnapshot,
                                          ![Head(waiters)] = Snapshot]
    /\ op' = Forget(op, p, "none")
    /\ tr' = Forget(tr, p, NoTransport)
    /\ reqId' = Forget(reqId, p, NoId)
    /\ srRet' = Forget(srRet, p, NoResult)
    /\ cmd' = Forget(cmd, p, "none")
    /\ ret' = Forget(ret, p, NoRet)
    /\ err' = Forget(err, p, NoMcpErr)
    /\ local' = Forget(local, p, NoLocal)
    /\ duringConnect' = Forget(duringConnect, p, FALSE)
    /\ arrived' = IF reqId[p] = NoId THEN arrived
                  ELSE [arrived EXCEPT ![reqId[p]] = NoResponse]
    /\ delivered' = IF reqId[p] = NoId THEN delivered
                    ELSE [delivered EXCEPT ![reqId[p]] = NoResponse]
    /\ UNCHANGED ncalls
    /\ UNCHANGED <<transportVars, requestVars, serverVars>>
    /\ UNCHANGED <<transport, state, server_capabilities, tools>>
    /\ lastWasDisconnect' = (cmd[p] = "disconnect_server")
    /\ UNCHANGED inbound
    /\ issuedAfterStop' = Forget(issuedAfterStop, p, FALSE)
    /\ UNCHANGED <<sent, inserted, nmatched, answers, handshake>>

\* ------------------------------------------------ ProperMcpClient::connect
\* lines 58-62
connect(p) ==
    /\ pc[p] = "connect"
    /\ state' = Connecting
    /\ pc' = [pc EXCEPT ![p] = "connect_spawn"]
    /\ UNCHANGED <<op, tr, reqId, srRet, cmd, ret, err, local, ncalls>>
    /\ UNCHANGED <<transportVars, requestVars, serverVars, historyVars>>
    /\ UNCHANGED <<transport, server_capabilities, tools, mcp_client, waiters>>

FreshTransport == CHOOSE t \in Trs : life[t] = "none" /\ \A u \in Trs : u < t => life[u] # "none"

\* StdioTransport::new succeeds: the child runs and the four tasks are started
connect_spawn_ok(p) ==
    /\ pc[p] = "connect_spawn"
    /\ \E t \in Trs : life[t] = "none"
    /\ LET t == FreshTransport IN
       /\ life' = [life EXCEPT ![t] = "live"]
       /\ child' = [child EXCEPT ![t] = "running"]
       /\ childHandle' = [childHandle EXCEPT ![t] = TRUE]
       /\ writer' = [writer EXCEPT ![t] = "run"]
       /\ reader' = [reader EXCEPT ![t] = "run"]
       /\ stderr_reader' = [stderr_reader EXCEPT ![t] = "run"]
       /\ correlator' = [correlator EXCEPT ![t] = "run"]
       /\ local' = [local EXCEPT ![p] = [t |-> t, v |-> ""]]
    /\ pc' = [pc EXCEPT ![p] = "connect_assign"]
    /\ UNCHANGED <<stdin_rx, pending_rx, response_rx, pending_requests, wire, stdout>>
    /\ UNCHANGED <<op, tr, reqId, srRet, cmd, ret, err, ncalls>>
    /\ UNCHANGED <<requestVars, serverVars, clientVars, historyVars>>

\* StdioTransport::new fails (lines 71-76); the old transport, if any, stays
connect_spawn_err(p) ==
    /\ pc[p] = "connect_spawn"
    /\ state' = Error("Transport error", Transport(Io))
    /\ ret' = [ret EXCEPT ![p] = CErr(Transport(Io))]
    /\ pc' = [pc EXCEPT ![p] = "return"]
    /\ UNCHANGED <<op, tr, reqId, srRet, cmd, err, local, ncalls>>
    /\ UNCHANGED <<transportVars, requestVars, serverVars, historyVars>>
    /\ UNCHANGED <<transport, server_capabilities, tools, mcp_client, waiters>>

\* line 78: self.transport = Some(..) drops the transport held before; then
\* initialize() starts on the new one
connect_assign(p) ==
    /\ pc[p] = "connect_assign"
    /\ transport' = local[p].t
    /\ IF transport # NoTransport
       THEN /\ life' = [life EXCEPT ![transport] = "dropped"]
            /\ child' = [child EXCEPT ![transport] = DropChild(transport)]
       ELSE UNCHANGED <<life, child>>
    /\ op' = [op EXCEPT ![p] = "initialize"]
    /\ tr' = [tr EXCEPT ![p] = local[p].t]
    /\ pc' = [pc EXCEPT ![p] = "send_request"]
    /\ UNCHANGED <<childHandle, stdin_rx, pending_rx, response_rx,
                   pending_requests, writer, reader, stderr_reader, correlator, wire, stdout>>
    /\ UNCHANGED <<reqId, srRet, cmd, ret, err, local, ncalls>>
    /\ UNCHANGED <<requestVars, serverVars, historyVars>>
    /\ UNCHANGED <<state, server_capabilities, tools, mcp_client, waiters>>

\* --------------------------------------------- ProperMcpClient::initialize
\* initialize_response without the `?`: whatever came back is taken as the
\* server's answer
initialize_response_unchecked(p) ==
    /\ pc[p] = "send_request_return"
    /\ op[p] = "initialize"
    /\ local' = [local EXCEPT ![p].v = srRet[p].val]
    /\ pc' = [pc EXCEPT ![p] = "initialize_store"]
    /\ UNCHANGED <<op, tr, reqId, srRet, cmd, ret, err, ncalls>>
    /\ UNCHANGED <<transportVars, requestVars, serverVars, clientVars, historyVars>>

\* lines 126-140: the answer to "initialize" and its parse
initialize_response(p) ==
    /\ pc[p] = "send_request_return"
    /\ op[p] = "initialize"
    /\ IF ~srRet[p].ok
       THEN /\ err' = [err EXCEPT ![p] = Transport(srRet[p].err)]
            /\ pc' = [pc EXCEPT ![p] = "connect_failed"]
            /\ UNCHANGED local
       ELSE IF ~ParsesInitialize(srRet[p].val)
       THEN /\ err' = [err EXCEPT ![p] = Protocol("Invalid initialize response")]
            /\ pc' = [pc EXCEPT ![p] = "connect_failed"]
            /\ UNCHANGED local
       ELSE /\ local' = [local EXCEPT ![p].v = srRet[p].val]
            /\ pc' = [pc EXCEPT ![p] = "initialize_store"]
            /\ UNCHANGED err
    /\ UNCHANGED <<op, tr, reqId, srRet, cmd, ret, ncalls>>
    /\ UNCHANGED <<transportVars, requestVars, serverVars, clientVars, historyVars>>
\* initialize that does not keep the capabilities of the answer.
initialize_store_capabilities_skipped(p) ==
    /\ pc[p] = "initialize_store"
    /\ UNCHANGED server_capabilities
    /\ pc' = [pc EXCEPT ![p] = "initialize_notify"]
    /\ UNCHANGED <<op, tr, reqId, srRet, cmd, ret, err, local, ncalls>>
    /\ UNCHANGED <<transportVars, requestVars, serverVars, historyVars>>
    /\ UNCHANGED <<transport, state, tools, mcp_client, waiters>>

\* lines 145-149
initialize_store_capabilities(p) ==
    /\ pc[p] = "initialize_store"
    /\ server_capabilities' = CapabilitiesOf(local[p].v)
    /\ pc' = [pc EXCEPT ![p] = "initialize_notify"]
    /\ UNCHANGED <<op, tr, reqId, srRet, cmd, ret, err, local, ncalls>>
    /\ UNCHANGED <<transportVars, requestVars, serverVars, historyVars>>
    /\ UNCHANGED <<transport, state, tools, mcp_client, waiters>>

\* lines 151-159 with StdioTransport::send_notification (lines 241-252)
initialize_notify(p) ==
    /\ pc[p] = "initialize_notify"
    /\ IF writer[tr[p]] = "run"
       THEN /\ stdin_rx' = [stdin_rx EXCEPT ![tr[p]] = Append(@, Notification("initialized"))]
            /\ sent' = [sent EXCEPT ![tr[p]] = Append(@, Notification("initialized"))]
            /\ pc' = [pc EXCEPT ![p] = "initialize_connected"]
            /\ UNCHANGED err
       ELSE /\ err' = [err EXCEPT ![p] = Transport(ChannelClosed)]
            /\ pc' = [pc EXCEPT ![p] = "connect_failed"]
            /\ UNCHANGED <<stdin_rx, sent>>
    /\ UNCHANGED <<life, child, childHandle, pending_rx, response_rx,
                   pending_requests, writer, reader, stderr_reader, correlator, wire, stdout>>
    /\ UNCHANGED <<op, tr, reqId, srRet, cmd, ret, local, ncalls>>
    /\ UNCHANGED <<requestVars, serverVars, clientVars>>
    /\ UNCHANGED <<inserted, nmatched, arrived, delivered, answers, handshake, lastWasDisconnect, inbound, issuedAfterStop, duringConnect, atBegin>>

\* lines 161-169, and connect's Ok arm (lines 83-88)
initialize_connected(p) ==
    /\ pc[p] = "initialize_connected"
    /\ state' = Connected
    /\ handshake' = handshake \cup {tr[p]}
    /\ ret' = [ret EXCEPT ![p] = COk("", <<>>)]
    /\ pc' = [pc EXCEPT ![p] = "return"]
    /\ UNCHANGED <<op, tr, reqId, srRet, cmd, err, local, ncalls>>
    /\ UNCHANGED <<transportVars, requestVars, serverVars>>
    /\ UNCHANGED <<transport, server_capabilities, tools, mcp_client, waiters>>
    /\ UNCHANGED <<sent, inserted, nmatched, arrived, delivered, answers,
                   lastWasDisconnect, inbound, issuedAfterStop, duringConnect, atBegin>>

\* connect_failed without the state update
connect_failed_stateless(p) ==
    /\ pc[p] = "connect_failed"
    /\ ret' = [ret EXCEPT ![p] = CErr(err[p])]
    /\ pc' = [pc EXCEPT ![p] = "return"]
    /\ UNCHANGED <<op, tr, reqId, srRet, cmd, err, local, ncalls>>
    /\ UNCHANGED <<transportVars, requestVars, serverVars, historyVars, clientVars>>

\* connect's Err arm (lines 89-94): initialize() failed
connect_failed(p) ==
    /\ pc[p] = "connect_failed"
    /\ state' = Error("Initialization failed", err[p])
    /\ ret' = [ret EXCEPT ![p] = CErr(err[p])]
    /\ pc' = [pc EXCEPT ![p] = "return"]
    /\ UNCHANGED <<op, tr, reqId, srRet, cmd, err, local, ncalls>>
    /\ UNCHANGED <<transportVars, requestVars, serverVars, historyVars>>
    /\ UNCHANGED <<transport, server_capabilities, tools, mcp_client, waiters>>

\* --------------------------------------------- ProperMcpClient::list_tools
\* the gate left out
ToolsAssumed(caps) == TRUE

\* the capability gate of list_tools (line 184)
ToolsSupported(caps) == caps.tools

\* lines 176-193: the transport check and the capability gate
list_tools(p) ==
    /\ pc[p] = "list_tools"
    /\ IF transport = NoTransport
       THEN /\ ret' = [ret EXCEPT ![p] = CErr(NotConnected)]
            /\ pc' = [pc EXCEPT ![p] = "return"]
            /\ UNCHANGED <<op, tr>>
       ELSE IF ~server_capabilities.some
       THEN /\ ret' = [ret EXCEPT ![p] = CErr(Protocol("Server not initialized"))]
            /\ pc' = [pc EXCEPT ![p] = "return"]
            /\ UNCHANGED <<op, tr>>
       ELSE IF ~ToolsSupported(server_capabilities)
       THEN /\ ret' = [ret EXCEPT ![p] = COk("", <<>>)]
            /\ pc' = [pc EXCEPT ![p] = "return"]
            /\ UNCHANGED <<op, tr>>
       ELSE /\ op' = [op EXCEPT ![p] = "list_tools"]
            /\ tr' = [tr EXCEPT ![p] = transport]
            /\ pc' = [pc EXCEPT ![p] = "send_request"]
            /\ UNCHANGED ret
    /\ UNCHANGED <<reqId, srRet, cmd, err, local, ncalls>>
    /\ UNCHANGED <<transportVars, requestVars, serverVars, clientVars, historyVars>>
\* list_tools that empties the cache when its request fails.
list_tools_response_clears(p) ==
    /\ pc[p] = "send_request_return"
    /\ op[p] = "list_tools"
    /\ IF ~srRet[p].ok
       THEN /\ ret' = [ret EXCEPT ![p] = CErr(Transport(srRet[p].err))]
            /\ tools' = <<>>
       ELSE IF ~ParsesListTools(srRet[p].val)
       THEN /\ ret' = [ret EXCEPT ![p] = CErr(Protocol("Invalid tools/list response"))]
            /\ UNCHANGED tools
       ELSE /\ tools' = ToolsOf(srRet[p].val)
            /\ ret' = [ret EXCEPT ![p] = COk("", ToolsOf(srRet[p].val))]
    /\ pc' = [pc EXCEPT ![p] = "return"]
    /\ UNCHANGED <<op, tr, reqId, srRet, cmd, err, local, ncalls>>
    /\ UNCHANGED <<transportVars, requestVars, serverVars, historyVars>>
    /\ UNCHANGED <<transport, state, server_capabilities, mcp_client, waiters>>

\* lines 198-233: the answer to "tools/list", its parse, the cache refreshed
list_tools_response(p) ==
    /\ pc[p] = "send_request_return"
    /\ op[p] = "list_tools"
    /\ IF ~srRet[p].ok
       THEN /\ ret' = [ret EXCEPT ![p] = CErr(Transport(srRet[p].err))]
            /\ UNCHANGED tools
       ELSE IF ~ParsesListTools(srRet[p].val)
       THEN /\ ret' = [ret EXCEPT ![p] = CErr(Protocol("Invalid tools/list response"))]
            /\ UNCHANGED tools
       ELSE /\ tools' = ToolsOf(srRet[p].val)
            /\ ret' = [ret EXCEPT ![p] = COk("", ToolsOf(srRet[p].val))]
    /\ pc' = [pc EXCEPT ![p] = "return"]
    /\ UNCHANGED <<op, tr, reqId, srRet, cmd, err, local, ncalls>>
    /\ UNCHANGED <<transportVars, requestVars, serverVars, historyVars>>
    /\ UNCHANGED <<transport, state, server_capabilities, mcp_client, waiters>>

\* ---------------------------------------------- ProperMcpClient::call_tool
\* call_tool with the transport taken for granted
call_tool_unchecked(p) ==
    /\ pc[p] = "call_tool"
    /\ IF transport = NoTransport
       THEN /\ ret' = [ret EXCEPT ![p] = CErr(Transport(ChannelClosed))]
            /\ pc' = [pc EXCEPT ![p] = "return"]
            /\ UNCHANGED <<op, tr>>
       ELSE /\ op' = [op EXCEPT ![p] = "call_tool"]
            /\ tr' = [tr EXCEPT ![p] = transport]
            /\ pc' = [pc EXCEPT ![p] = "send_request"]
            /\ UNCHANGED ret
    /\ UNCHANGED <<reqId, srRet, cmd, err, local, ncalls>>
    /\ UNCHANGED <<transportVars, requestVars, serverVars, clientVars, historyVars>>

\* lines 237-247: only the transport is checked
call_tool(p) ==
    /\ pc[p] = "call_tool"
    /\ IF transport = NoTransport
       THEN /\ ret' = [ret EXCEPT ![p] = CErr(NotConnected)]
            /\ pc' = [pc EXCEPT ![p] = "return"]
            /\ UNCHANGED <<op, tr>>
       ELSE /\ op' = [op EXCEPT ![p] = "call_tool"]
            /\ tr' = [tr EXCEPT ![p] = transport]
            /\ pc' = [pc EXCEPT ![p] = "send_request"]
            /\ UNCHANGED ret
    /\ UNCHANGED <<reqId, srRet, cmd, err, local, ncalls>>
    /\ UNCHANGED <<transportVars, requestVars, serverVars, clientVars, historyVars>>

\* lines 247-252: `?` wraps a TransportError, then the parse
call_tool_response(p) ==
    /\ pc[p] = "send_request_return"
    /\ op[p] = "call_tool"
    /\ ret' = [ret EXCEPT
                  ![p] = IF ~srRet[p].ok THEN CErr(Transport(srRet[p].err))
                         ELSE IF ~ParsesCallTool(srRet[p].val)
                         THEN CErr(Protocol("Invalid tools/call response"))
                         ELSE COk(srRet[p].val, <<>>)]
    /\ pc' = [pc EXCEPT ![p] = "return"]
    /\ UNCHANGED <<op, tr, reqId, srRet, cmd, err, local, ncalls>>
    /\ UNCHANGED <<transportVars, requestVars, serverVars, clientVars, historyVars>>

\* ------------------------------- get_connection_status, with get_state
StatusOf(st) ==
    CASE st.tag = "Disconnected" -> "disconnected"
      [] st.tag = "Connecting" -> "connecting"
      [] st.tag = "Connected" -> "connected"
      [] OTHER -> "error"

get_connection_status(p) ==
    /\ pc[p] = "get_state"
    /\ ret' = [ret EXCEPT ![p] = COk(StatusOf(state), <<>>)]
    /\ pc' = [pc EXCEPT ![p] = "return"]
    /\ UNCHANGED <<op, tr, reqId, srRet, cmd, err, local, ncalls>>
    /\ UNCHANGED <<transportVars, requestVars, serverVars, clientVars, historyVars>>

\* -------------- ProperMcpClient::disconnect, with StdioTransport::close
\* disconnect that takes a missing transport for an error
disconnect_strict(p) ==
    /\ pc[p] = "disconnect"
    /\ IF transport # NoTransport
       THEN /\ child' = [child EXCEPT ![transport] = DropChild(transport)]
            /\ childHandle' = [childHandle EXCEPT ![transport] = FALSE]
            /\ life' = [life EXCEPT ![transport] = "dropped"]
       ELSE UNCHANGED <<child, childHandle, life>>
    /\ transport' = NoTransport
    /\ state' = Disconnected
    /\ tools' = <<>>
    /\ server_capabilities' = NoCapabilities
    /\ ret' = [ret EXCEPT ![p] = IF transport # NoTransport THEN COk("", <<>>)
                                 ELSE CErr(NotConnected)]
    /\ pc' = [pc EXCEPT ![p] = "return"]
    /\ UNCHANGED <<stdin_rx, pending_rx, response_rx, pending_requests, writer,
                   reader, stderr_reader, correlator, wire, stdout>>
    /\ UNCHANGED <<op, tr, reqId, srRet, cmd, err, local, ncalls>>
    /\ UNCHANGED <<requestVars, serverVars, mcp_client, waiters, historyVars>>

\* disconnect without the reset of the capabilities
disconnect_keeps_capabilities(p) ==
    /\ pc[p] = "disconnect"
    /\ IF transport # NoTransport
       THEN /\ child' = [child EXCEPT ![transport] = DropChild(transport)]
            /\ childHandle' = [childHandle EXCEPT ![transport] = FALSE]
            /\ life' = [life EXCEPT ![transport] = "dropped"]
       ELSE UNCHANGED <<child, childHandle, life>>
    /\ transport' = NoTransport
    /\ state' = Disconnected
    /\ tools' = <<>>
    /\ UNCHANGED server_capabilities
    /\ ret' = [ret EXCEPT ![p] = COk("", <<>>)]
    /\ pc' = [pc EXCEPT ![p] = "return"]
    /\ UNCHANGED <<stdin_rx, pending_rx, response_rx, pending_requests, writer,
                   reader, stderr_reader, correlator, wire, stdout>>
    /\ UNCHANGED <<op, tr, reqId, srRet, cmd, err, local, ncalls>>
    /\ UNCHANGED <<requestVars, serverVars, mcp_client, waiters, historyVars>>

\* close kills and reaps a child still owned; the transport taken out of the
\* client is dropped at the end of the if-let
disconnect(p) ==
    /\ pc[p] = "disconnect"
    /\ IF transport # NoTransport
       THEN /\ child' = [child EXCEPT ![transport] = DropChild(transport)]
            /\ childHandle' = [childHandle EXCEPT ![transport] = FALSE]
            /\ life' = [life EXCEPT ![transport] = "dropped"]
       ELSE UNCHANGED <<child, childHandle, life>>
    /\ transport' = NoTransport
    /\ state' = Disconnected
    /\ tools' = <<>>
    /\ server_capabilities' = NoCapabilities
    /\ ret' = [ret EXCEPT ![p] = COk("", <<>>)]
    /\ pc' = [pc EXCEPT ![p] = "return"]
    /\ UNCHANGED <<stdin_rx, pending_rx, response_rx, pending_requests, writer,
                   reader, stderr_reader, correlator, wire, stdout>>
    /\ UNCHANGED <<op, tr, reqId, srRet, cmd, err, local, ncalls>>
    /\ UNCHANGED <<requestVars, serverVars, mcp_client, waiters, historyVars>>

\* ------------------------------ the tasks of a transport that was dropped
\* stdin_handle: recv gives None once stdin_tx is gone and the queue is empty
stdin_handle_exit(t) ==
    /\ writer[t] = "run"
    /\ life[t] = "dropped"
    /\ stdin_rx[t] = <<>>
    /\ writer' = [writer EXCEPT ![t] = "done"]
    /\ UNCHANGED <<life, child, childHandle, stdin_rx, pending_rx, response_rx,
                   pending_requests, reader, stderr_reader, correlator, wire, stdout>>
    /\ UNCHANGED <<requestVars, serverVars, callerVars, clientVars, historyVars>>
\* A correlator that leaves only once its map is empty.
pending_handle_break_idle(t) ==
    /\ correlator[t] = "run"
    /\ life[t] = "dropped"
    /\ pending_rx[t] = <<>>
    /\ reader[t] = "done"
    /\ response_rx[t] = <<>>
    /\ pending_requests[t] = {}
    /\ correlator' = [correlator EXCEPT ![t] = "done"]
    /\ pending_requests' = [pending_requests EXCEPT ![t] = {}]
    /\ slot' = [i \in Ids |->
                   IF i \in pending_requests[t]
                   THEN (IF slot[i].st = "empty" THEN TxDropped ELSE Closed)
                   ELSE slot[i]]
    /\ UNCHANGED <<life, child, childHandle, stdin_rx, pending_rx, response_rx,
                   writer, reader, stderr_reader, wire, stdout>>
    /\ UNCHANGED <<nextId, registeredAs, serverVars, callerVars, clientVars, historyVars>>

\* pending_handle: the else arm of select!, taken once both channels are
\* closed and empty; the map goes away with the senders it holds
pending_handle_break(t) ==
    /\ correlator[t] = "run"
    /\ life[t] = "dropped"
    /\ pending_rx[t] = <<>>
    /\ reader[t] = "done"
    /\ response_rx[t] = <<>>
    /\ correlator' = [correlator EXCEPT ![t] = "done"]
    /\ pending_requests' = [pending_requests EXCEPT ![t] = {}]
    /\ slot' = [i \in Ids |->
                   IF i \in pending_requests[t]
                   THEN (IF slot[i].st = "empty" THEN TxDropped ELSE Closed)
                   ELSE slot[i]]
    /\ UNCHANGED <<life, child, childHandle, stdin_rx, pending_rx, response_rx,
                   writer, reader, stderr_reader, wire, stdout>>
    /\ UNCHANGED <<nextId, registeredAs, serverVars, callerVars, clientVars, historyVars>>

\* stderr_handle: next_line gives None once the child is gone.  The task only
\* logs, so its end is a step of ShutdownSpec alone.
stderr_handle_eof(t) ==
    /\ stderr_reader[t] = "run"
    /\ child[t] \in {"exited", "killed"}
    /\ stderr_reader' = [stderr_reader EXCEPT ![t] = "done"]
    /\ UNCHANGED <<life, child, childHandle, stdin_rx, pending_rx, response_rx,
                   pending_requests, writer, reader, correlator, wire, stdout>>
    /\ UNCHANGED <<requestVars, serverVars, callerVars, clientVars, historyVars>>

\* the owner of a bare transport lets go of it; send_request borrows the
\* transport, so no call is under way.  The Child goes with it (kill_on_drop).
direct_drop ==
    /\ life[1] = "live"
    /\ \A q \in Procs : pc[q] = "idle"
    /\ life' = [life EXCEPT ![1] = "dropped"]
    /\ child' = [child EXCEPT ![1] = DropChild(1)]
    /\ UNCHANGED <<childHandle, stdin_rx, pending_rx, response_rx,
                   pending_requests, writer, reader, stderr_reader, correlator,
                   wire, stdout>>
    /\ UNCHANGED <<requestVars, serverVars, callerVars, clientVars, historyVars>>

TaskExits ==
    \E t \in Trs : stdin_handle_exit(t) \/ pending_handle_break(t)

HostCommands ==
    \E p \in Procs :
        \/ \E c \in Commands : command_invoke(p, c)
        \/ command_return(p)

Client ==
    \E p \in Procs :
        \/ connect(p)
        \/ connect_spawn_ok(p)
        \/ connect_spawn_err(p)
        \/ connect_assign(p)
        \/ initialize_response(p)
        \/ initialize_store_capabilities(p)
        \/ initialize_notify(p)
        \/ initialize_connected(p)
        \/ connect_failed(p)
        \/ list_tools(p)
        \/ list_tools_response(p)
        \/ call_tool(p)
        \/ call_tool_response(p)
        \/ get_connection_status(p)
        \/ disconnect(p)

Next ==
    \/ HostCommands
    \/ Client
    \/ SendRequest
    \/ TransportTasks
    \/ TaskExits

\* the application: the host commands on one AppState, with a server that
\* writes responses only (its other lines are exercised in TransportSpec)
Spec == Init /\ [][Next]_vars

\* tool discovery on a connected client: discover_tools is the only command
SessionNext ==
    \/ \E p \in Procs :
          \/ command_invoke(p, "discover_tools")
          \/ command_return(p)
          \/ list_tools(p)
          \/ list_tools_response(p)
    \/ SendRequest
    \/ TransportTasks

\* the application from the moment its first connect has succeeded
SessionSpec == InitConnected /\ [][SessionNext]_vars

\* One transport used by a single caller and then let go of, with every task
\* it started.
ShutdownNext ==
    \/ TransportTasks
    \/ TaskExits
    \/ \E t \in Trs : stderr_handle_eof(t)
    \/ SendRequest
    \/ direct_send_request(1)
    \/ direct_return(1)
    \/ direct_close(1)
    \/ direct_drop

\* tokio runs every task that is ready: each step of a background task is
\* taken if it stays possible
TaskFairness ==
    \A t \in Trs :
        /\ WF_vars(pending_handle_insert(t))
        /\ WF_vars(pending_handle_response(t))
        /\ WF_vars(pending_handle_break(t))
        /\ WF_vars(stdin_handle_write(t))
        /\ WF_vars(stdin_handle_exit(t))
        /\ WF_vars(stdout_handle_line(t))
        /\ WF_vars(stdout_handle_eof(t))
        /\ WF_vars(stderr_handle_eof(t))

ShutdownSpec == InitTransport /\ [][ShutdownNext]_vars /\ TaskFairness

\* ------------------------------------------------------------ properties
\* ids for which send_request has drawn a uuid
Issued == 1..(nextId - 1)

\* C1: a response that pending_handle takes while the caller of its id is
\* still waiting finds the entry of that id in the map: it is matched and is
\* not discarded as an unknown id.  The code does not hold this: the entry is
\* only on its way to pending_handle (pending_rx) when the request is handed
\* to the writer, and select! may take the response first.
C1_ResponseFindsEntry ==
    \A i \in Ids : arrived[i] # NoResponse => nmatched[i] > 0

\* C2: with several callers on one transport and a server that has answered
\* every request exactly once, a caller whose response reached pending_handle
\* while it waited returns the outcome of that response.  The code does not
\* hold this: a response discarded by the race of C1 leaves its caller to
\* the timeout.
C2_OwnOutcome ==
    \A p \in Procs :
        (/\ pc[p] = "send_request_return"
         /\ nextId > 2
         /\ \A i \in Issued : answers[i] = 1
         /\ arrived[reqId[p]] # NoResponse)
        => srRet[p] = Outcome(arrived[reqId[p]])

\* C3: a send_request that returns Timeout has had the entry of its id
\* removed, so that with no other request in flight the map is empty.  The
\* code does not hold this: the timeout arm only maps the error.
C3_TimeoutRemovesEntry ==
    \A p \in Procs :
        (pc[p] = "send_request_return" /\ srRet[p] = TFail(Timeout))
        => /\ reqId[p] \notin pending_requests[tr[p]]
           /\ (\A q \in Procs \ {p} : pc[q] = "idle")
                  => pending_requests[tr[p]] = {}

\* the completion the claims expect for a response: Ok(result), or the
\* server's code and message
Completion(r) ==
    IF r.result # "" THEN [ok |-> TRUE, val |-> r.result, err |-> NoTErr]
    ELSE IF r.error.some
    THEN [ok |-> FALSE, val |-> "",
          err |-> [tag |-> "Process", val |-> "RPC error",
                   code |-> r.error.code, message |-> r.error.message]]
    ELSE [ok |-> FALSE, val |-> "", err |-> ProcessInvalid]

\* C4: a response that matches an entry takes the entry out of the map and
\* puts one completion into the slot of the caller that registered the id and
\* still waits, Ok(result) or the server's code and message; the caller that
\* sees it finds its entry gone (a tools/call answered by -32001 "boom" fails
\* call_tool with that code and message); no id is matched twice, so a second
\* response with the id delivers nothing.
C4_MatchedResponseDelivered ==
    /\ \A i \in Ids :
          /\ nmatched[i] <= 1
          /\ delivered[i] # NoResponse => delivered[i].id = i /\ nmatched[i] = 1
          /\ slot[i].st = "filled" =>
                /\ delivered[i] # NoResponse
                /\ slot[i].res = Completion(delivered[i])
                /\ \A t \in Trs : i \notin pending_requests[t]
    /\ \A p \in Procs :
          /\ (pc[p] = "send_request_return" /\ delivered[reqId[p]] # NoResponse) =>
                /\ srRet[p] = Completion(delivered[reqId[p]])
                /\ reqId[p] \notin pending_requests[tr[p]]
          /\ (/\ pc[p] = "return"
              /\ op[p] = "call_tool"
              /\ delivered[reqId[p]] = Response(reqId[p], "", Boom)) =>
                ret[p] = CErr(Transport(TErr("Process", "RPC error", -32001, "boom")))

\* call_tool has failed with the server's -32001 "boom", and the server's
\* second response with that id has gone through pending_handle too
C4_Witness ==
    \E p \in Procs :
        /\ pc[p] = "return"
        /\ op[p] = "call_tool"
        /\ ret[p] = CErr(Transport(TErr("Process", "RPC error", -32001, "boom")))
        /\ answers[reqId[p]] = 2
        /\ reader[tr[p]] = "run"
        /\ stdout[tr[p]] = <<>>
        /\ response_rx[tr[p]] = <<>>

\* the position of the first message of a method in a sequence, 0 if none
FirstOf(seq, method) ==
    IF \E k \in 1..Len(seq) : seq[k].method = method
    THEN CHOOSE k \in 1..Len(seq) :
             /\ seq[k].method = method
             /\ \A j \in 1..(k - 1) : seq[j].method # method
    ELSE 0

\* "initialize" comes first in a sequence of messages of one transport
InitializeFirst(seq) ==
    seq # <<>> => seq[1] = Request("initialize", seq[1].id)

\* the step enqueues the "initialized" notification on transport t
EnqueuesInitialized(t) ==
    /\ FirstOf(sent[t], "initialized") = 0
    /\ FirstOf(sent'[t], "initialized") # 0

\* C5: in connect, "initialized" is enqueued only once "initialize" has been
\* answered with a result that parses and the capabilities of that result are
\* stored; the state becomes Connected only once "initialized" is enqueued;
\* on the wire "initialize" is first, before "initialized" and before any
\* tools/list or tools/call.
C5_HandshakeOrder ==
    /\ [](\A t \in Trs : InitializeFirst(sent[t]) /\ InitializeFirst(wire[t]))
    /\ [](state = Connected =>
             /\ transport # NoTransport
             /\ FirstOf(sent[transport], "initialized") > 1)
    /\ [][\A t \in Trs : EnqueuesInitialized(t) =>
             /\ transport = t
             /\ \E p \in Procs :
                   /\ mcp_client = p
                   /\ op[p] = "initialize"
                   /\ delivered[reqId[p]] # NoResponse
                   /\ delivered[reqId[p]].result \in {"init_tools", "init_notools"}
                   /\ srRet[p].ok
                   /\ server_capabilities =
                          [some |-> TRUE,
                           tools |-> delivered[reqId[p]].result = "init_tools"]]_vars
    /\ [][(state # Connected /\ state' = Connected) =>
             FirstOf(sent[transport], "initialized") > 1]_vars

\* connect has returned Ok and the server has read both messages in order
C5_Witness ==
    \E p \in Procs :
        /\ pc[p] = "return"
        /\ cmd[p] = "start_mcp_server"
        /\ ret[p].ok
        /\ state = Connected
        /\ Len(wire[transport]) = 2
        /\ wire[transport][2] = Notification("initialized")

\* the client's fields are what they were when the operation of p began,
\* and the operation has drawn no request id and enqueued nothing
Untouched(p) ==
    /\ state = atBegin[p].state
    /\ server_capabilities = atBegin[p].server_capabilities
    /\ tools = atBegin[p].tools
    /\ transport = atBegin[p].transport
    /\ sent = atBegin[p].sent
    /\ nextId = atBegin[p].nextId
    /\ reqId[p] = NoId

\* C6: when connect returns, the state is not Connecting; it returns an error
\* exactly when the spawn or a step of the handshake failed, and then the
\* state is Error with the reason of that failure (never Connected); it
\* returns Ok only with the state Connected.
C6_ConnectFailure ==
    \A p \in Procs :
        (pc[p] = "return" /\ cmd[p] = "start_mcp_server") =>
            /\ state.tag \in {"Connected", "Error"}
            /\ ret[p].ok <=> state = Connected
            /\ ret[p].ok =>
                  /\ srRet[p].ok
                  /\ srRet[p].val \in {"init_tools", "init_notools"}
            /\ ~ret[p].ok =>
                  /\ state.tag = "Error"
                  /\ state.err = ret[p].err
                  /\ \/ /\ tr[p] = NoTransport
                        /\ state = Error("Transport error", Transport(Io))
                     \/ /\ tr[p] # NoTransport
                        /\ state.prefix = "Initialization failed"
                        /\ ~srRet[p].ok => state.err = Transport(srRet[p].err)
                        /\ srRet[p].ok =>
                              state.err = Protocol("Invalid initialize response")

\* connect has returned the timeout of its initialize request
C6_Witness ==
    \E p \in Procs :
        /\ pc[p] = "return"
        /\ cmd[p] = "start_mcp_server"
        /\ ret[p] = CErr(Transport(Timeout))
        /\ state = Error("Initialization failed", Transport(Timeout))

\* C7: list_tools on a Connected client whose capabilities have no tools
\* returns the empty list, draws no request id, enqueues nothing, and leaves
\* state and cached tools as they were.
C7_NoToolsCapability ==
    \A p \in Procs :
        (/\ pc[p] = "return"
         /\ cmd[p] = "discover_tools"
         /\ atBegin[p].state = Connected
         /\ atBegin[p].server_capabilities = [some |-> TRUE, tools |-> FALSE])
        => /\ ret[p] = COk("", <<>>)
           /\ Untouched(p)

\* discover_tools has returned on such a client
C7_Witness ==
    \E p \in Procs :
        /\ pc[p] = "return"
        /\ cmd[p] = "discover_tools"
        /\ atBegin[p].state = Connected
        /\ atBegin[p].server_capabilities = [some |-> TRUE, tools |-> FALSE]
        /\ ret[p].ok

\* C8: list_tools and call_tool on a client that holds no transport fail with
\* NotConnected, enqueue nothing and leave state, capabilities and cached
\* tools as they were.
C8_NoTransport ==
    \A p \in Procs :
        (/\ pc[p] = "return"
         /\ cmd[p] \in {"discover_tools", "call_tool"}
         /\ atBegin[p].transport = NoTransport)
        => /\ ret[p] = CErr(NotConnected)
           /\ Untouched(p)

\* discover_tools has returned NotConnected on a client that a failed spawn
\* left in Error with no transport
C8_Witness ==
    \E p \in Procs :
        /\ pc[p] = "return"
        /\ cmd[p] = "discover_tools"
        /\ atBegin[p].state = Error("Transport error", Transport(Io))
        /\ atBegin[p].transport = NoTransport
        /\ ret[p] = CErr(NotConnected)

\* C9: discover_tools invoked while start_mcp_server runs connect fails with
\* NotConnected and sends no tools/list.  The code does not hold this: the
\* command waits for the client's mutex and then runs list_tools on whatever
\* connect left.
C9_NotConnectedDuringConnect ==
    \A p \in Procs :
        (cmd[p] = "discover_tools" /\ duringConnect[p]) =>
            /\ op[p] # "list_tools"
            /\ pc[p] = "return" => ret[p] = CErr(NotConnected)

\* C10: a tools/call is enqueued only on a transport whose initialize
\* handshake has returned Ok.  The code does not hold this: call_tool checks
\* that a transport is held, and connect keeps the transport whose
\* initialize failed.
C10_CallToolAfterHandshake ==
    \A t \in Trs :
        FirstOf(sent[t], "tools/call") # 0 => t \in handshake

C12_AfterDisconnect ==
    \A p \in Procs :
        /\ (pc[p] = "return" /\ cmd[p] = "disconnect_server") =>
              /\ state = Disconnected
              /\ tools = <<>>
              /\ server_capabilities = NoCapabilities
              /\ transport = NoTransport
        /\ (/\ pc[p] = "return"
            /\ cmd[p] = "get_connection_status"
            /\ lastWasDisconnect) => ret[p] = COk("disconnected", <<>>)

\* disconnect has returned on a client that was Connected
C12_Witness ==
    \E p \in Procs :
        /\ pc[p] = "return"
        /\ cmd[p] = "disconnect_server"
        /\ atBegin[p].state = Connected
        /\ atBegin[p].server_capabilities.some
        /\ life[atBegin[p].transport] = "dropped"

\* C13: a send_request or send_notification issued on a transport whose close
\* has returned fails with ChannelClosed.  The code does not hold this: close
\* kills the child and leaves the channels and tasks as they are, so
\* send_notification returns Ok and send_request waits for its timeout
\* unless the writer has already met its write error.
C13_ClosedTransportFails ==
    \A p \in Procs :
        (/\ pc[p] = "send_request_return"
         /\ op[p] \in {"direct", "notify"}
         /\ ~childHandle[tr[p]])
        => srRet[p] = TFail(ChannelClosed)

\* the request of task p has been written to the child's stdin
Written(p) ==
    \E k \in 1..Len(wire[tr[p]]) :
        wire[tr[p]][k] = Request(MethodOf(op[p]), registeredAs[reqId[p]])

\* C14: once the child is gone and its stdout has closed, a caller whose
\* request was written and is still unanswered is completed with
\* ChannelClosed and not left to its timeout.  The code does not hold this:
\* pending_handle keeps waiting on pending_rx, which stays open as long as
\* the transport lives, so the entry stays in the map and the caller runs
\* into the 30 s.
C14_ShutdownDrains ==
    [][\A p \in Procs :
          (/\ pc[p] = "send_request_await"
           /\ pc'[p] = "send_request_return"
           /\ Written(p)
           /\ slot[reqId[p]].st = "empty"
           /\ reader[tr[p]] = "done"
           /\ response_rx[tr[p]] = <<>>)
          => srRet'[p] = TFail(ChannelClosed)]_vars

\* C15: a child process runs only while the client holds its transport (or
\* connect has just spawned it and is about to store it): the child of a
\* transport the client let go of, by disconnect or by a later connect, is
\* terminated.
C15_ChildScopedToTransport ==
    \A t \in Trs :
        /\ life[t] = "dropped" => child[t] \in {"exited", "killed"}
        /\ child[t] = "running" =>
              \/ t = transport
              \/ \E p \in Procs : pc[p] = "connect_assign" /\ local[p].t = t

\* a later connect has replaced a transport, and its child was killed
C15_Witness ==
    \E t \in Trs :
        /\ life[t] = "dropped"
        /\ child[t] = "killed"
        /\ transport \notin {t, NoTransport}


\* ---------------------------------------------------------------------------
\* C16  Registering a uuid that is already in the correlator's map is rejected
\*      and the entry registered earlier stays: the sender of a waiting
\*      request is never dropped while its transport lives, and the request
\*      that repeated the uuid does not return a result.
Repeats(n) == \E m \in Ids : m < n /\ registeredAs[m] = registeredAs[n]

C16_DuplicateRejected ==
    /\ \A m \in Ids : slot[m].st # "tx_dropped"
    /\ \A p \in Procs :
          (pc[p] = "send_request_return" /\ reqId[p] # NoId /\ Repeats(reqId[p]))
              => ~srRet[p].ok


\* ---------------------------------------------------------------------------
\* C17  A response that finds no waiting caller (its id is not in the map, or
\*      the caller registered under it has stopped waiting) is dropped: the
\*      step completes no caller, keeps every entry registered under another
\*      id, adds none, and leaves the correlator, the stdout reader and every
\*      caller where they were.
NoWaiter(t, id) ==
    \A m \in pending_requests[t] :
        registeredAs[m] = id => slot[m].st # "empty"

C17_UnknownIdDropped ==
    [][\A t \in Trs :
          ( /\ correlator[t] = "run"
            /\ response_rx[t] # <<>>
            /\ response_rx'[t] = Tail(response_rx[t])
            /\ life'[t] = life[t]
            /\ NoWaiter(t, Head(response_rx[t]).id) )
          => /\ \A i \in Ids : slot'[i].st = "filled" => slot[i].st = "filled"
             /\ \A m \in pending_requests[t] :
                   registeredAs[m] # Head(response_rx[t]).id
                       => m \in pending_requests'[t]
             /\ pending_requests'[t] \subseteq pending_requests[t]
             /\ correlator'[t] = "run"
             /\ reader'[t] = reader[t]
             /\ pc' = pc
             /\ srRet' = srRet]_vars

\* the first response to a request was dropped and a later one was delivered
C17_Witness ==
    \E i \in Ids :
        /\ arrived[i] # NoResponse
        /\ delivered[i] # NoResponse
        /\ arrived[i] # delivered[i]


\* ---------------------------------------------------------------------------
\* C18  When connect fails after the transport was spawned, the transport is
\*      closed: once connect has returned the error, the client holds no
\*      transport and the child it spawned no longer runs.
C18_FailedConnectCloses ==
    \A p \in Procs :
        ( /\ pc[p] = "return"
          /\ cmd[p] = "start_mcp_server"
          /\ ~ret[p].ok
          /\ tr[p] # NoTransport )
        => /\ transport = NoTransport
           /\ child[tr[p]] # "running"


\* ---------------------------------------------------------------------------
\* C19  The transport is fail-stop: a send_request that began after the writer
\*      or the stdout reader of its transport had ended returns no result; it
\*      fails with ChannelClosed or Timeout.
C19_FailStop ==
    \A p \in Procs :
        (pc[p] = "send_request_return" /\ op[p] = "direct" /\ issuedAfterStop[p])
            => srRet[p] \in {TFail(ChannelClosed), TFail(Timeout)}

\* a request that began after the reader had ended, was enqueued for a writer
\* still alive and ran into its timeout
C19_Witness ==
    \E p \in Procs :
        /\ pc[p] = "send_request_return"
        /\ op[p] = "direct"
        /\ issuedAfterStop[p]
        /\ srRet[p] = TFail(Timeout)
        /\ \E k \in 1..Len(sent[tr[p]]) :
               sent[tr[p]][k] = Request(MethodOf(op[p]), registeredAs[reqId[p]])


\* ---------------------------------------------------------------------------
\* C20  The writer puts the messages on the child's stdin in the order in
\*      which their enqueues completed, each once and none skipped: what is
\*      written is a prefix of what was enqueued, and while the writer lives
\*      the rest is exactly its queue; "initialized" is written only after
\*      "initialize".
IsPrefix(a, b) ==
    /\ Len(a) <= Len(b)
    /\ \A k \in 1..Len(a) : a[k] = b[k]

C20_WriterKeepsOrder ==
    \A t \in Trs :
        /\ IsPrefix(wire[t], sent[t])
        /\ writer[t] = "run" => sent[t] = wire[t] \o stdin_rx[t]
        /\ \A j \in 1..Len(wire[t]) :
              wire[t][j] = Notification("initialized")
                  => \E i \in 1..(j - 1) : wire[t][i].method = "initialize"

\* the handshake and a tools/list request are on the wire
C20_Witness ==
    \E t \in Trs :
        /\ Len(wire[t]) = 3
        /\ wire[t][1].method = "initialize"
        /\ wire[t][2] = Notification("initialized")
        /\ wire[t][3].method = "tools/list"


\* ---------------------------------------------------------------------------
\* C21  A line on stdout that is empty, blank or cannot be parsed is skipped:
\*      the step that consumes it forwards nothing to the correlator and
\*      leaves the stdout reader running, so the lines after it are read.
Unreadable == {"Blank", "Unparseable", "InvalidUtf8"}

C21_BadLineSkipped ==
    [][\A t \in Trs :
          ( /\ reader[t] = "run"
            /\ stdout[t] # <<>>
            /\ Head(stdout[t]).kind \in Unreadable
            /\ stdout'[t] = Tail(stdout[t])
            /\ life'[t] = life[t] )
          => /\ reader'[t] = "run"
             /\ response_rx'[t] = response_rx[t]
             /\ slot' = slot]_vars


\* ---------------------------------------------------------------------------
\* C22  A request or notification of the server is discarded by the stdout
\*      reader: the step that consumes it puts nothing on the child's stdin or
\*      in the writer's queue, forwards nothing to the correlator, changes no
\*      registration, completes no caller and leaves the reader running.
C22_InboundDiscarded ==
    [][\A t \in Trs :
          ( /\ reader[t] = "run"
            /\ stdout[t] # <<>>
            /\ Head(stdout[t]).kind \in {"Notification", "Request"}
            /\ stdout'[t] = Tail(stdout[t])
            /\ life'[t] = life[t] )
          => /\ reader'[t] = "run"
             /\ stdin_rx' = stdin_rx
             /\ wire' = wire
             /\ response_rx' = response_rx
             /\ pending_rx' = pending_rx
             /\ pending_requests' = pending_requests
             /\ slot' = slot
             /\ pc' = pc
             /\ srRet' = srRet]_vars

\* the reader discarded a message of the server, forwarded a response that
\* came after it, and a caller has its result
C22_Witness ==
    \E p \in Procs :
        /\ pc[p] = "send_request_return"
        /\ op[p] = "direct"
        /\ srRet[p].ok
        /\ inbound[tr[p]] = "then_response"


\* ---------------------------------------------------------------------------
\* C23  list_tools that gets a valid answer to its tools/list request makes
\*      the cached tools exactly the tools of that answer and returns the
\*      same list; list_tools that fails (transport error, timeout, an answer
\*      that does not parse) leaves the cache as it was.  Either way the
\*      state stays Connected and the capabilities and the transport stay.
ValidToolsAnswer(r) == r # NoResponse /\ r.result \in {"tools_a", "tools_b"}

C23_ListToolsRefreshes ==
    \A p \in Procs :
        (pc[p] = "return" /\ cmd[p] = "discover_tools" /\ reqId[p] # NoId) =>
            /\ state = Connected
            /\ state = atBegin[p].state
            /\ server_capabilities = atBegin[p].server_capabilities
            /\ transport = atBegin[p].transport
            /\ (srRet[p].ok /\ ValidToolsAnswer(delivered[reqId[p]])) => ret[p].ok
            /\ ret[p].ok =>
                  /\ ValidToolsAnswer(delivered[reqId[p]])
                  /\ tools = ToolsOf(delivered[reqId[p]].result)
                  /\ ret[p].tools = tools
            /\ ~ret[p].ok => tools = atBegin[p].tools

\* a second discovery has replaced the tools the first one cached
C23_Witness ==
    \E p \in Procs :
        /\ pc[p] = "return"
        /\ cmd[p] = "discover_tools"
        /\ ret[p].ok
        /\ atBegin[p].tools = <<"echo">>
        /\ tools = <<"echo", "add">>


\* ---------------------------------------------------------------------------
\* C24  Once a transport has been dropped, its child killed or gone, each task
\*      it started (writer, stdout reader, stderr reader, correlator) ends.
TasksEnded(t) ==
    /\ writer[t] = "done"
    /\ reader[t] = "done"
    /\ stderr_reader[t] = "done"
    /\ correlator[t] = "done"

C24_TasksTerminate ==
    \A t \in Trs : (life[t] = "dropped") ~> TasksEnded(t)

\* a transport let go of with a request on the wire has no task left
C24_Witness ==
    \E t \in Trs :
        /\ life[t] = "dropped"
        /\ child[t] = "killed"
        /\ wire[t] # <<>>
        /\ TasksEnded(t)


\* ---------------------------------------------------------------------------
\* C25  Whenever the state of the client is Connected, the client holds a
\*      transport and server capabilities are stored.
C25_ConnectedHasSession ==
    state = Connected =>
        /\ transport # NoTransport
        /\ server_capabilities.some

\* Connected, seen by a status query that has the lock
C25_Witness ==
    /\ state = Connected
    /\ \E p \in Procs :
          /\ pc[p] = "return"
          /\ cmd[p] = "get_connection_status"
          /\ ret[p] = COk("connected", <<>>)


\* ---------------------------------------------------------------------------
\* C26  The capabilities and the tools the client stores come from the server
\*      behind its current transport; none are stored while the state is
\*      Disconnected or Error, and while connect works on a new transport
\*      those of the server before it are gone.
C26_SessionDataCurrent ==
    /\ state.tag \in {"Disconnected", "Error"} =>
          /\ server_capabilities = NoCapabilities
          /\ tools = <<>>
    /\ \A p \in Procs :
          (pc[p] = "send_request" /\ op[p] = "initialize") =>
              /\ server_capabilities = NoCapabilities
              /\ tools = <<>>


\* ---------------------------------------------------------------------------
\* C27  The client has at most one running server child at every moment: the
\*      child of the transport before is ended before a new one is spawned.
C27_OneChild ==
    Cardinality({t \in Trs : child[t] = "running"}) <= 1


\* ---------------------------------------------------------------------------
\* C28  The host commands exclude each other on the client: at most one task
\*      is inside client code, it is the holder of the mutex from its entry to
\*      its return, the state Connecting exists only under a start_mcp_server
\*      that holds it, and get_connection_status never answers "connecting".
InClient(p) == pc[p] \notin {"idle", "lock"}

C28_CommandsExclusive ==
    /\ \A p, q \in Procs : (InClient(p) /\ InClient(q)) => p = q
    /\ \A p \in Procs : InClient(p) => mcp_client = p
    /\ state = Connecting =>
          \E p \in Procs : InClient(p) /\ cmd[p] = "start_mcp_server"
    /\ \A p \in Procs :
          (pc[p] = "return" /\ cmd[p] = "get_connection_status")
              => /\ ret[p].ok
                 /\ ret[p].val \in {"disconnected", "connected", "error"}

\* a status query invoked while connect was running has waited and returned
C28_Witness ==
    \E p \in Procs :
        /\ pc[p] = "return"
        /\ cmd[p] = "get_connection_status"
        /\ duringConnect[p]
        /\ ret[p].ok


\* ===========================================================================
\* McpClient (mcp_client.rs) over the StdioTransport of stdio_transport.rs.
\* One task owns the client and calls initialize and shutdown in turn; the
\* receive loop spawned by McpClient::new runs beside it.  All of it is the
\* record mc.
\* ===========================================================================
appVars == <<transportVars, requestVars, emitted, noise, callerVars, clientVars,
             historyVars>>

\* McpClient::new has returned Ok: the child runs, the three tasks of the
\* transport and the receive loop are spawned, nothing has been sent
McpClientNew ==
    [child |-> "running",      \* "running" | "exited" | "killed"
     reader |-> "run",         \* stdout task of the transport
     writer |-> "run",         \* stdin task of the transport
     dropped |-> FALSE,        \* the StdioTransport value has been dropped
     loop |-> "start",         \* receive loop: "start" | "wait" | "receive" | "handle" | "done"
     msg |-> NoResponse,       \* the message the loop is handling
     lock |-> "free",          \* Mutex<StdioTransport>: "free" | "loop" | "caller"
     waiters |-> <<>>,         \* tasks queued for it, first come first served
     rx |-> <<>>,              \* parsed messages for receive()
     stdout |-> <<>>,          \* lines of the child not yet read
     queue |-> <<>>,           \* messages handed to send(), not yet written
     wire |-> <<>>,            \* lines written to the child's stdin
     pending |-> {},           \* ids in pending_requests
     oneshot |-> [i \in Ids |-> Unused],
     pc |-> "idle",
     op |-> "none",
     id |-> NoId,
     nextId |-> 1,
     ncalls |-> 0,
     emitted |-> 0,
     noise |-> 0,
     ret |-> "none",
     status |-> "Connecting",
     capabilities |-> FALSE,
     childAtShutdown |-> "none"]

InitMcpClient ==
    /\ InitCallers
    /\ InitClient
    /\ InitTransports({})
    /\ atBegin = [p \in Procs |-> NoSnapshot]
    /\ mc = McpClientNew

\* tokio's Mutex: lock() gets the mutex when it is free and nobody queues,
\* and queues otherwise
Acquire(m, who) ==
    IF m.lock = "free" /\ m.waiters = <<>>
    THEN IF who = "loop"
         THEN [m EXCEPT !.lock = "loop", !.loop = "receive"]
         ELSE [m EXCEPT !.lock = "caller",
                        !.pc = IF m.op = "initialized" THEN "notify_send"
                               ELSE "send"]
    ELSE IF who = "loop"
         THEN [m EXCEPT !.waiters = Append(@, "loop"), !.loop = "wait"]
         ELSE [m EXCEPT !.waiters = Append(@, "caller"), !.pc = "wait"]

\* the guard is dropped: the mutex goes to the first task queued
Release(m) ==
    IF m.waiters = <<>> THEN [m EXCEPT !.lock = "free"]
    ELSE IF Head(m.waiters) = "loop"
    THEN [m EXCEPT !.lock = "loop", !.waiters = Tail(@), !.loop = "receive"]
    ELSE [m EXCEPT !.lock = "caller", !.waiters = Tail(@),
                   !.pc = IF m.op = "initialized" THEN "notify_send"
                          ELSE "send"]

\* ------------------------------------------------------ the receive loop
\* line 39: transport_clone.lock().await
McpClient_loop_lock ==
    /\ mc.child # "none"
    /\ mc.loop = "start"
    /\ mc' = Acquire(mc, "loop")
    /\ UNCHANGED appVars

\* lines 40-42: receive() gives a message; the guard is dropped, then the
\* message is handled
McpClient_loop_receive ==
    /\ mc.child # "none"
    /\ mc.loop = "receive"
    /\ mc.rx # <<>>
    /\ mc' = Release([mc EXCEPT !.msg = Head(mc.rx), !.rx = Tail(@),
                                !.loop = "handle"])
    /\ UNCHANGED appVars

\* lines 43-45: receive() gives None once the stdout task, the only sender
\* left, has ended; the loop breaks, its guard and its Arc are dropped
McpClient_loop_break ==
    /\ mc.child # "none"
    /\ mc.loop = "receive"
    /\ mc.rx = <<>>
    /\ mc.reader = "done"
    /\ mc' = Release([mc EXCEPT !.loop = "done",
                                !.dropped = mc.pc = "gone"])
    /\ UNCHANGED appVars

\* handle_message, lines 52-74
McpClient_handle_message ==
    /\ mc.child # "none"
    /\ mc.loop = "handle"
    /\ LET r == mc.msg IN
       mc' = IF r.kind = "Response" /\ r.id \in mc.pending
             THEN [mc EXCEPT
                      !.pending = @ \ {r.id},
                      !.oneshot[r.id] =
                          IF @.st # "empty" THEN Closed
                          ELSE IF r.result # "" THEN Filled(TOk(r.result))
                          ELSE TxDropped,
                      !.msg = NoResponse,
                      !.loop = "start"]
             ELSE [mc EXCEPT !.msg = NoResponse, !.loop = "start"]
    /\ UNCHANGED appVars

\* ------------------------------------------------- the tasks of the transport
\* stdio_transport.rs lines 66-91
McpClient_stdout_line ==
    /\ mc.child # "none"
    /\ mc.reader = "run"
    /\ mc.stdout # <<>>
    /\ LET l == Head(mc.stdout) IN
       mc' = IF l.kind = "InvalidUtf8"
             THEN [mc EXCEPT !.stdout = Tail(@), !.reader = "done"]
             ELSE IF l.kind \in {"Blank", "Unparseable"}
             THEN [mc EXCEPT !.stdout = Tail(@)]
             ELSE [mc EXCEPT !.stdout = Tail(@), !.rx = Append(@, l)]
    /\ UNCHANGED appVars

\* next_line gives None once the child is gone and the pipe is drained
McpClient_stdout_eof ==
    /\ mc.reader = "run"
    /\ mc.stdout = <<>>
    /\ mc.child \in {"exited", "killed"}
    /\ mc' = [mc EXCEPT !.reader = "done"]
    /\ UNCHANGED appVars

\* stdio_transport.rs lines 103-123
McpClient_stdin_write ==
    /\ mc.writer = "run"
    /\ mc.queue # <<>>
    /\ mc' = IF mc.child = "running"
             THEN [mc EXCEPT !.wire = Append(@, Head(mc.queue)),
                             !.queue = Tail(@)]
             ELSE [mc EXCEPT !.writer = "done", !.queue = <<>>]
    /\ UNCHANGED appVars

\* internal_rx.recv() gives None once the transport, which holds the sender,
\* has been dropped
McpClient_stdin_exit ==
    /\ mc.writer = "run"
    /\ mc.queue = <<>>
    /\ mc.dropped
    /\ mc' = [mc EXCEPT !.writer = "done"]
    /\ UNCHANGED appVars

\* ---------------------------------------------------------- the server
McpClient_server_respond ==
    /\ mc.child = "running"
    /\ mc.emitted < MaxLines
    /\ \E k \in 1..Len(mc.wire) :
          /\ mc.wire[k].kind = "Request"
          /\ \E b \in Payloads(mc.wire[k].method) :
                mc' = [mc EXCEPT
                          !.stdout = Append(@, Response(mc.wire[k].id,
                                                        b.result, b.error)),
                          !.emitted = @ + 1]
    /\ UNCHANGED appVars

McpClient_server_noise ==
    /\ mc.child = "running"
    /\ mc.noise < MaxNoise
    /\ \E k \in NoiseKinds :
          mc' = [mc EXCEPT !.stdout = Append(@, Noise(k)), !.noise = @ + 1]
    /\ UNCHANGED appVars

McpClient_child_exit ==
    /\ mc.child = "running"
    /\ mc' = [mc EXCEPT !.child = "exited"]
    /\ UNCHANGED appVars

\* ------------------------------------------------ McpClient::initialize
\* the owner calls initialize (line 147: send_request("initialize"))
McpClient_initialize ==
    /\ mc.child # "none"
    /\ mc.pc = "idle"
    /\ mc.ncalls < MaxCalls
    /\ mc' = [mc EXCEPT !.pc = "register", !.op = "initialize",
                        !.ncalls = @ + 1, !.ret = "none"]
    /\ UNCHANGED appVars

\* send_request, lines 77-90: the id, the one-shot channel, the map entry
McpClient_send_request_register ==
    /\ mc.child # "none"
    /\ mc.pc = "register"
    /\ mc' = [mc EXCEPT !.id = mc.nextId,
                        !.nextId = @ + 1,
                        !.oneshot[mc.nextId] = Empty,
                        !.pending = @ \cup {mc.nextId},
                        !.pc = "lock"]
    /\ UNCHANGED appVars

\* line 92 (and line 124 in send_notification): self.transport.lock().await
McpClient_transport_lock ==
    /\ mc.child # "none"
    /\ mc.pc = "lock"
    /\ mc' = Acquire(mc, "caller")
    /\ UNCHANGED appVars

\* lines 93-100 with StdioTransport::send: the request goes to the stdin
\* task, or send fails because that task has ended; the guard is dropped
McpClient_send_request_send ==
    /\ mc.child # "none"
    /\ mc.pc = "send"
    /\ mc' = IF mc.writer = "run"
             THEN Release([mc EXCEPT
                              !.queue = Append(@, Request(mc.op, mc.id)),
                              !.pc = "await"])
             ELSE Release([mc EXCEPT !.ret = "err_send", !.pc = "return"])
    /\ UNCHANGED appVars

\* lines 103-111 and initialize lines 148-171: the answer, its parse, the
\* capabilities stored
McpClient_send_request_recv ==
    /\ mc.child # "none"
    /\ mc.pc = "await"
    /\ mc.oneshot[mc.id].st \in {"filled", "tx_dropped"}
    /\ mc' = IF mc.oneshot[mc.id].st = "tx_dropped"
             THEN [mc EXCEPT !.oneshot[mc.id] = Closed,
                             !.ret = "err_channel", !.pc = "return"]
             ELSE IF mc.oneshot[mc.id].res.val \in {"init_tools", "init_notools"}
             THEN [mc EXCEPT !.oneshot[mc.id] = Closed,
                             !.capabilities = TRUE,
                             !.op = "initialized", !.pc = "lock"]
             ELSE [mc EXCEPT !.oneshot[mc.id] = Closed,
                             !.ret = "err_parse", !.pc = "return"]
    /\ UNCHANGED appVars

\* lines 112-118: ten seconds have passed; the entry is removed
McpClient_send_request_timeout ==
    /\ mc.child # "none"
    /\ mc.pc = "await"
    /\ mc.oneshot[mc.id].st = "empty"
    /\ mc' = [mc EXCEPT !.oneshot[mc.id] = RxDropped,
                        !.pending = @ \ {mc.id},
                        !.ret = "err_timeout", !.pc = "return"]
    /\ UNCHANGED appVars

\* send_notification lines 123-126 and initialize lines 173-181
McpClient_send_notification_send ==
    /\ mc.child # "none"
    /\ mc.pc = "notify_send"
    /\ mc' = IF mc.writer = "run"
             THEN Release([mc EXCEPT
                              !.queue = Append(@, Notification("initialized")),
                              !.status = "Connected",
                              !.ret = "ok", !.pc = "return"])
             ELSE Release([mc EXCEPT !.ret = "err_send", !.pc = "return"])
    /\ UNCHANGED appVars

\* the call has returned to the owner
McpClient_return ==
    /\ mc.child # "none"
    /\ mc.pc = "return"
    /\ mc' = [mc EXCEPT !.pc = "idle", !.op = "none", !.id = NoId]
    /\ UNCHANGED appVars

\* -------------------------------------------------- McpClient::shutdown
\* lines 218-221
McpClient_shutdown ==
    /\ mc.child # "none"
    /\ mc.pc = "idle"
    /\ mc.ncalls < MaxCalls
    /\ mc' = [mc EXCEPT !.pc = "shutdown", !.op = "shutdown",
                        !.ncalls = @ + 1, !.ret = "none",
                        !.status = "Disconnected",
                        !.childAtShutdown = mc.child]
    /\ UNCHANGED appVars

\* lines 223-225: Arc::try_unwrap succeeds only when the receive loop, which
\* holds the other Arc, has ended; otherwise shutdown returns the error and
\* the client, consumed by the call, is gone
McpClient_shutdown_unwrap ==
    /\ mc.pc = "shutdown"
    /\ mc' = IF mc.loop = "done"
             THEN [mc EXCEPT !.pc = "shutdown_kill"]
             ELSE [mc EXCEPT !.ret = "err_unwrap", !.pc = "gone"]
    /\ UNCHANGED appVars

\* line 226 with StdioTransport::shutdown (lines 141-145): kill and wait,
\* then the transport is dropped
McpClient_shutdown_kill ==
    /\ mc.pc = "shutdown_kill"
    /\ \E r \in IF mc.child = "running" THEN {"ok"} ELSE {"ok", "err_kill"} :
          mc' = [mc EXCEPT !.child = IF @ = "running" THEN "killed" ELSE @,
                           !.ret = r, !.pc = "gone", !.dropped = TRUE]
    /\ UNCHANGED appVars

McpClientTasks ==
    \/ McpClient_loop_lock
    \/ McpClient_loop_receive
    \/ McpClient_loop_break
    \/ McpClient_handle_message
    \/ McpClient_stdout_line
    \/ McpClient_stdout_eof
    \/ McpClient_stdin_write
    \/ McpClient_stdin_exit

McpClientServer ==
    \/ McpClient_server_respond
    \/ McpClient_server_noise
    \/ McpClient_child_exit

McpClientCalls ==
    \/ McpClient_initialize
    \/ McpClient_send_request_register
    \/ McpClient_transport_lock
    \/ McpClient_send_request_send
    \/ McpClient_send_request_recv
    \/ McpClient_send_request_timeout
    \/ McpClient_send_notification_send
    \/ McpClient_return
    \/ McpClient_shutdown
    \/ McpClient_shutdown_unwrap
    \/ McpClient_shutdown_kill

McpClientNext == McpClientTasks \/ McpClientServer \/ McpClientCalls

McpClientSpec == InitMcpClient /\ [][McpClientNext]_vars


\* the server has written nothing and still runs
ServerSilent ==
    /\ mc.child = "running"
    /\ mc.emitted = 0
    /\ mc.noise = 0
    /\ mc.stdout = <<>>
    /\ mc.rx = <<>>

\* C29: a send_request of McpClient issued while the receive loop runs and
\* the server has sent nothing gets the transport lock and hands its request
\* to the transport: while it waits for the lock and the server is silent,
\* the client can always take a step of its own, so the receive loop never
\* keeps the lock while it waits for an inbound message.
C29_SenderGetsLock ==
    (mc.child # "none" /\ mc.pc \in {"lock", "wait"} /\ mc.op = "initialize"
        /\ ServerSilent)
        => ENABLED (McpClientTasks \/ McpClientCalls)

\* C30: McpClient::shutdown called while the server process runs kills the
\* child and returns success: when it has returned the result is Ok, no
\* child is left running and the status is Disconnected.
C30_ShutdownKills ==
    (mc.child # "none" /\ mc.pc = "gone" /\ mc.childAtShutdown = "running")
        => /\ mc.ret = "ok"
           /\ mc.child # "running"
           /\ mc.status = "Disconnected"

====
